---------------------------- MODULE Spec2Model ----------------------------
(***************************************************************************)
(* LogParserForKarpenter (lp4k): the nodeclaim registry (nodeclaimmap),    *)
(* its secondary index (k8snodenamemap) and the parser that folds          *)
(* Karpenter controller log lines into them (parser/parser.go), together   *)
(* with the goroutines of cluster mode that share the two maps (k8s/k8s.go)*)
(*                                                                         *)
(* Strings of the program are TLA+ strings.  A log line is the record of   *)
(* the JSON fields the regular expressions of the parser look for; a       *)
(* field the line does not carry holds Absent.  Durations are held in      *)
(* seconds.                                                                *)
(***************************************************************************)
EXTENDS Integers, Sequences, FiniteSets, TLC

VARIABLES
    nodeclaimmap,     \* map[string]Nodeclaimstruct, main.go:31
    k8snodenamemap,   \* map[string]string, main.go:33
    logline,          \* the line last handed to ParseKarpenterLogs (scanner.Text())
    stderr,           \* what that call of ParseKarpenterLogs wrote to os.Stderr
    scanned,          \* number of lines read from the input so far
    created,          \* history: ids of the created events stored so far
    before,           \* history: the two maps as they were when that call began
    pc,               \* cluster mode: position of each goroutine
    pending,          \* cluster mode: map stores a parser goroutine has yet to do
    consumed,         \* cluster mode, history: lines each parser goroutine took
    snapshot,         \* cluster mode: the slice s sortResult is filling
    todo,             \* cluster mode: keys sortResult's range has yet to visit
    boundary,         \* cluster mode, history: values each record had between events
    file,             \* file mode: the lines of the input file, main.go:93
    rows,             \* the slice sortResult returned to PrintSortedResult
    stdout,           \* the lines printed to os.Stdout
    configmap,        \* the ConfigMap in the cluster: whether it exists, and its Data
    persisted,        \* history: the ConfigMap as the running process found it
    sigch,            \* signals waiting in the channel signal.Notify sends to
    helpers,          \* goroutines blocked in the receive from that channel
    interrupted,      \* history: the process has been sent SIGINT or SIGTERM
    finalexports,     \* history: exports made after the last line was parsed
    args,             \* file mode: os.Args[1:], each with what os.Open finds
    argi              \* file mode: how many of the arguments the loop has taken

vars == <<nodeclaimmap, k8snodenamemap, logline, stderr, scanned, created, before,
          pc, pending, consumed, snapshot, todo, boundary, file, rows, stdout,
          configmap, persisted, sigch, helpers, interrupted, finalexports,
          args, argi>>

seqvars == <<nodeclaimmap, k8snodenamemap, logline, stderr, scanned, created, before>>

concvars == <<pc, pending, consumed, snapshot, todo, boundary>>

filevars == <<file, rows, stdout>>

cmvars == <<configmap, persisted>>

sigvars == <<sigch, helpers, interrupted, finalexports>>

argvars == <<args, argi>>

----------------------------------------------------------------------------
(* Bounds of the model *)

\* lines read from the input in the sequential modes
MaxLines == 4

\* lines each pod's log stream delivers in cluster mode
MaxStreamLines == 2

----------------------------------------------------------------------------
(* Strings *)

\* s[i:] starts with p (i is 1-based)
HasPrefixAt(s, i, p) ==
    /\ i + Len(p) - 1 <= Len(s)
    /\ SubSeq(s, i, i + Len(p) - 1) = p

\* strings.Contains
Contains(s, p) == \E i \in 1..Len(s) : HasPrefixAt(s, i, p)

\* strings.LastIndex: 0-based index of the last occurrence, -1 if none
LastIndex(s, p) ==
    LET hits == {i \in 1..Len(s) : HasPrefixAt(s, i, p)}
    IN  IF hits = {} THEN 0 - 1
        ELSE (CHOOSE i \in hits : \A j \in hits : j <= i) - 1

\* replacer.Replace from position i on: at each position the pairs of
\* strings.NewReplacer(", ", "|", " ", "", "(s)", "s") are tried in order
RECURSIVE ReplaceFrom(_, _)
ReplaceFrom(s, i) ==
    IF i > Len(s) THEN ""
    ELSE IF HasPrefixAt(s, i, ", ") THEN "|" \o ReplaceFrom(s, i + 2)
    ELSE IF HasPrefixAt(s, i, " ") THEN ReplaceFrom(s, i + 1)
    ELSE IF HasPrefixAt(s, i, "(s)") THEN "s" \o ReplaceFrom(s, i + 3)
    ELSE SubSeq(s, i, i) \o ReplaceFrom(s, i + 1)

replacer(s) == ReplaceFrom(s, 1)

\* instancetypes as the "created nodeclaim" case normalises them
NormalizeInstancetypes(val) ==
    IF Contains(val, " and ")
    THEN LET position == LastIndex(val, " and ")
         IN  replacer(SubSeq(val, 1, position)) \o "|"
                 \o replacer(SubSeq(val, position + 1, Len(val)))
    ELSE replacer(val)

\* awsproviderID[len(awsproviderID)-1] of strings.Split(val, "/")
LastSegment(val) ==
    LET position == LastIndex(val, "/")
    IN  SubSeq(val, position + 2, Len(val))

\* fmt.Sprintf("%s:%s", a, b)
SprintfColon(a, b) == a \o ":" \o b

----------------------------------------------------------------------------
(* Timestamps and durations *)

Digits == "0123456789"

IsDigit(c) == \E d \in 1..10 : SubSeq(Digits, d, d) = c

DigitValue(c) == (CHOOSE d \in 1..10 : SubSeq(Digits, d, d) = c) - 1

\* the timestamps of the modelled logs lie in one hour of one day:
\* "2024-01-01T00:MM:SS.000Z"
WellFormedTime(s) ==
    /\ Len(s) = 24
    /\ SubSeq(s, 1, 14) = "2024-01-01T00:"
    /\ SubSeq(s, 17, 17) = ":"
    /\ SubSeq(s, 20, 24) = ".000Z"
    /\ \A i \in {15, 16, 18, 19} : IsDigit(SubSeq(s, i, i))

\* datetime.Parse(s, time.UTC): ok with the seconds since 2024-01-01T00:00:00Z,
\* or an error with the zero time.Time
datetimeParse(s) ==
    IF WellFormedTime(s)
    THEN [ok |-> TRUE,
          sec |-> 600 * DigitValue(SubSeq(s, 15, 15)) + 60 * DigitValue(SubSeq(s, 16, 16))
                  + 10 * DigitValue(SubSeq(s, 18, 18)) + DigitValue(SubSeq(s, 19, 19))]
    ELSE [ok |-> FALSE, sec |-> 0]

\* the largest and smallest time.Duration, at the width of the model's integers
maxDuration == 2147483647
minDuration == 0 - maxDuration

\* t2.Sub(t1) of the two parse results, errors ignored as the parser ignores
\* them: the zero time.Time lies more than 292 years before 2024, so a
\* difference with exactly one zero time saturates
TimeSub(p2, p1) ==
    IF p2.ok /\ p1.ok THEN p2.sec - p1.sec
    ELSE IF p2.ok THEN maxDuration
    ELSE IF p1.ok THEN minDuration
    ELSE 0

\* time.Duration.Seconds(); durations are held in seconds
Seconds(d) == d

----------------------------------------------------------------------------
(* Records of the registry *)

\* the Nodeclaimstruct the "created nodeclaim" case stores
NewNodeclaimstruct(createdtime, nodepool, instancetypes) ==
    [Createdtime            |-> createdtime,
     Nodepool               |-> nodepool,
     Instancetypes          |-> instancetypes,
     Launchedtime           |-> "",
     Providerid             |-> "",
     Instancetype           |-> "",
     Zone                   |-> "",
     Capacitytype           |-> "",
     Registeredtime         |-> "",
     K8snodename            |-> "",
     Initializedtime        |-> "",
     Nodereadytime          |-> 0,
     Nodereadytimesec       |-> 0,
     Disruptiontime         |-> "",
     Disruptionreason       |-> "",
     Disruptiondecision     |-> "",
     Disruptednodecount     |-> "",
     Replacementnodecount   |-> "",
     Disruptedpodcount      |-> "",
     Annotationtime         |-> "",
     Annotation             |-> "",
     Tainttime              |-> "",
     Taint                  |-> "",
     Interruptiontime       |-> "",
     Interruptionkind       |-> "",
     Deletedtime            |-> "",
     Nodeterminationtime    |-> 0,
     Nodeterminationtimesec |-> 0,
     Nodelifecycletime      |-> 0,
     Nodelifecycletimesec   |-> 0,
     Initialized            |-> FALSE,
     Deleted                |-> FALSE]

\* m[key] = val of a Go map
MapStore(m, key, val) ==
    [k \in DOMAIN m \cup {key} |-> IF k = key THEN val ELSE m[k]]

EmptyMap == [k \in {} |-> ""]

\* no ConfigMap of the name exists; and the ConfigMap with the given Data
NoConfigMap == [exists |-> FALSE, Data |-> EmptyMap]
ConfigMapWith(data) == [exists |-> TRUE, Data |-> data]

----------------------------------------------------------------------------
(* Log lines *)

\* a JSON field the line does not carry
Absent == "<absent>"

\* a line none of whose fields is one the parser looks for
NoiseLine ==
    [message |-> Absent, time |-> Absent, NodePool |-> Absent,
     NodeClaim |-> Absent, Node |-> Absent, namespace |-> Absent,
     instancetypes |-> Absent, providerid |-> Absent, instancetype |-> Absent,
     zone |-> Absent, capacitytype |-> Absent, reason |-> Absent,
     decision |-> Absent, disruptednodecount |-> Absent,
     replacementnodecount |-> Absent, podcount |-> Absent,
     messageKind |-> Absent, lastkey |-> Absent, lastvalue |-> Absent,
     taintKey |-> Absent, taintValue |-> Absent, taintEffect |-> Absent]

Has(l, fields) == \A f \in fields : l[f] # Absent

\* the sub-match slices: matchslicesub[1:] of each pattern, <<>> for nil.
\* Each pattern needs the fields it names, in the order Karpenter logs them.

\* "message":"(.*)","commit"
matchMessage(l) == IF Has(l, {"message"}) THEN <<l.message>> ELSE <<>>

\* parser.go:165
matchCreated(l) ==
    IF Has(l, {"time", "NodePool", "NodeClaim", "instancetypes"})
    THEN <<l.time, l.NodePool, l.NodeClaim, l.instancetypes>> ELSE <<>>

\* parser.go:227
matchLaunched(l) ==
    IF Has(l, {"time", "NodeClaim", "providerid", "instancetype", "zone", "capacitytype"})
    THEN <<l.time, l.NodeClaim, l.providerid, l.instancetype, l.zone, l.capacitytype>>
    ELSE <<>>

\* parser.go:259
matchRegistered(l) ==
    IF Has(l, {"time", "NodeClaim", "Node"})
    THEN <<l.time, l.NodeClaim, l.Node>> ELSE <<>>

\* parser.go:285 and parser.go:502
matchTimeNodeClaim(l) ==
    IF Has(l, {"time", "NodeClaim", "namespace"})
    THEN <<l.time, l.NodeClaim>> ELSE <<>>

\* parser.go:315
matchDisrupting(l) ==
    IF Has(l, {"time", "reason", "decision", "disruptednodecount",
               "replacementnodecount", "podcount", "NodeClaim", "capacitytype"})
    THEN <<l.time, l.reason, l.decision, l.disruptednodecount,
           l.replacementnodecount, l.podcount, l.NodeClaim>>
    ELSE <<>>

\* parser.go:352
matchInterruption(l) ==
    IF Has(l, {"time", "messageKind", "NodeClaim"})
    THEN <<l.time, l.messageKind, l.NodeClaim>> ELSE <<>>

\* parser.go:377
matchAnnotated(l) ==
    IF Has(l, {"time", "NodeClaim", "namespace", "lastkey", "lastvalue"})
    THEN <<l.time, l.NodeClaim, l.lastkey, l.lastvalue>> ELSE <<>>

\* parser.go:405: the taint fields follow the NodeClaim (Karpenter 1.1.x+)
matchTaintedNodeClaim(l) ==
    IF Has(l, {"time", "NodeClaim", "taintKey", "taintValue", "taintEffect"})
    THEN <<l.time, l.NodeClaim, l.taintKey, l.taintValue, l.taintEffect>>
    ELSE <<>>

\* parser.go:439: Karpenter 1.0.x
matchTaintedNode(l) ==
    IF Has(l, {"time", "Node", "namespace", "taintKey", "taintValue", "taintEffect"})
    THEN <<l.time, l.Node, l.taintKey, l.taintValue, l.taintEffect>>
    ELSE <<>>

\* parser.go:474: Karpenter 0.37.x
matchTaintedNodeOnly(l) ==
    IF Has(l, {"time", "Node", "namespace"})
    THEN <<l.time, l.Node>> ELSE <<>>

----------------------------------------------------------------------------
(* Diagnostics on os.Stderr *)

Diag(text, arg, inputline, filename) ==
    [text |-> text, arg |-> arg, line |-> inputline, file |-> filename]

\* "Parsing error for message ... probably Karpenter log syntax has changed!"
ErrSyntax == "Parsing error for message"
ErrEmptyNodeClaim == "Parsing error empty NodeClaim"
ErrEmptyNodeName == "Parsing error empty K8s node name"
ErrEmptyInitialized == "Parsing error empty initialized time"
ErrEmptyDeleted == "Parsing error empty deleted time"
ErrNoNodeClaim == "No corresponding NodeClaim for K8s node"
ErrNoCreated == "Most probably does not contain a corresponding created nodeclaim log entry"

----------------------------------------------------------------------------
(* ParseKarpenterLogs: what one call stores into the maps, store by store in
   program order, and what it writes to os.Stderr.  Each case reads the maps
   once, before its first store. *)

NcStore(key, val) == [map |-> "nodeclaimmap", key |-> key, val |-> val]
KnStore(key, val) == [map |-> "k8snodenamemap", key |-> key, val |-> val]

Outcome(stores, err) == [stores |-> stores, err |-> err]

Nothing == Outcome(<<>>, <<>>)

\* a syntax error that also stores an empty record under the empty name
SyntaxErrorStoresRecord(msg, inputline, filename) ==
    Outcome(<<NcStore("", NewNodeclaimstruct("", "", ""))>>,
            <<Diag(ErrSyntax, msg, inputline, filename)>>)

SyntaxError(msg, inputline, filename) ==
    Outcome(<<>>, <<Diag(ErrSyntax, msg, inputline, filename)>>)

EmptyNodeClaim(msg, inputline, filename) ==
    Outcome(<<>>, <<Diag(ErrEmptyNodeClaim, msg, inputline, filename)>>)

EmptyNodeName(msg, inputline, filename) ==
    Outcome(<<>>, <<Diag(ErrEmptyNodeName, msg, inputline, filename)>>)

NoNodeClaim(k8snodename, inputline, filename) ==
    Outcome(<<>>, <<Diag(ErrNoNodeClaim, k8snodename, inputline, filename),
                    Diag(ErrNoCreated, filename, inputline, filename)>>)

\* caseCreated updating the three fields of a record that exists already
caseCreatedKeeps(l, msg, ncm, knm, inputline, filename) ==
    LET m == matchCreated(l)
    IN  IF m = <<>> THEN SyntaxError(msg, inputline, filename)
        ELSE IF m[3] \in DOMAIN ncm
        THEN Outcome(<<NcStore(m[3], [ncm[m[3]] EXCEPT !.Createdtime = m[1],
                          !.Nodepool = m[2],
                          !.Instancetypes = NormalizeInstancetypes(m[4])])>>, <<>>)
        ELSE Outcome(<<NcStore(m[3], NewNodeclaimstruct(m[1], m[2],
                                        NormalizeInstancetypes(m[4])))>>, <<>>)

\* case "created nodeclaim"
caseCreated(l, msg, ncm, knm, inputline, filename) ==
    LET m == matchCreated(l)
    IN  IF m # <<>>
        THEN Outcome(<<NcStore(m[3], NewNodeclaimstruct(m[1], m[2],
                                        NormalizeInstancetypes(m[4])))>>, <<>>)
        ELSE SyntaxError(msg, inputline, filename)

\* the entry the "launched nodeclaim" case stores
LaunchedEntry(entry, m) ==
    [entry EXCEPT !.Launchedtime = m[1], !.Providerid = LastSegment(m[3]),
                  !.Instancetype = m[4], !.Zone = m[5], !.Capacitytype = m[6]]

\* caseLaunched without the test that the record exists
caseLaunchedCreates(l, msg, ncm, knm, inputline, filename) ==
    LET m == matchLaunched(l)
    IN  IF m = <<>> THEN SyntaxError(msg, inputline, filename)
        ELSE IF m[2] = "" THEN EmptyNodeClaim(msg, inputline, filename)
        ELSE Outcome(<<NcStore(m[2], LaunchedEntry(
                          IF m[2] \in DOMAIN ncm THEN ncm[m[2]]
                          ELSE NewNodeclaimstruct("", "", ""), m))>>, <<>>)

\* case "launched nodeclaim"
caseLaunched(l, msg, ncm, knm, inputline, filename) ==
    LET m == matchLaunched(l)
    IN  IF m = <<>> THEN SyntaxError(msg, inputline, filename)
        ELSE IF m[2] = "" THEN EmptyNodeClaim(msg, inputline, filename)
        ELSE IF m[2] \in DOMAIN ncm
        THEN Outcome(<<NcStore(m[2], LaunchedEntry(ncm[m[2]], m))>>, <<>>)
        ELSE Nothing

\* the entry the "registered nodeclaim" case stores
RegisteredEntry(entry, m) ==
    [entry EXCEPT !.Registeredtime = m[1], !.K8snodename = m[3]]

\* caseRegistered storing the index entry before the test that the record exists
caseRegisteredIndexesFirst(l, msg, ncm, knm, inputline, filename) ==
    LET m == matchRegistered(l)
    IN  IF m = <<>> THEN SyntaxError(msg, inputline, filename)
        ELSE IF m[2] = "" THEN EmptyNodeClaim(msg, inputline, filename)
        ELSE IF m[2] \in DOMAIN ncm
        THEN Outcome(<<KnStore(m[3], m[2]),
                       NcStore(m[2], RegisteredEntry(ncm[m[2]], m))>>, <<>>)
        ELSE Outcome(<<KnStore(m[3], m[2])>>, <<>>)

\* caseRegistered leaving an index entry the node name already has
caseRegisteredKeepsIndex(l, msg, ncm, knm, inputline, filename) ==
    LET m == matchRegistered(l)
    IN  IF m = <<>> THEN SyntaxError(msg, inputline, filename)
        ELSE IF m[2] = "" THEN EmptyNodeClaim(msg, inputline, filename)
        ELSE IF m[2] \in DOMAIN ncm
        THEN Outcome((IF m[3] \in DOMAIN knm THEN <<>> ELSE <<KnStore(m[3], m[2])>>)
                     \o <<NcStore(m[2], RegisteredEntry(ncm[m[2]], m))>>, <<>>)
        ELSE Nothing

\* case "registered nodeclaim"
caseRegistered(l, msg, ncm, knm, inputline, filename) ==
    LET m == matchRegistered(l)
    IN  IF m = <<>> THEN SyntaxError(msg, inputline, filename)
        ELSE IF m[2] = "" THEN EmptyNodeClaim(msg, inputline, filename)
        ELSE IF m[2] \in DOMAIN ncm
        THEN Outcome(<<KnStore(m[3], m[2]),
                       NcStore(m[2], RegisteredEntry(ncm[m[2]], m))>>, <<>>)
        ELSE Nothing

\* Elapsed with the two timestamps exchanged
ElapsedReversed(from, to) == TimeSub(datetimeParse(from), datetimeParse(to))

\* the duration between two timestamps of an entry, as the parser computes it
Elapsed(from, to) == TimeSub(datetimeParse(to), datetimeParse(from))

\* an "initialized nodeclaim" case that sets the flag only with a timestamp
InitializedEntryNeedsTime(entry, m) ==
    LET e1 == [entry EXCEPT !.Initializedtime = m[1]]
        e2 == IF e1.Initializedtime # "" /\ e1.Createdtime # ""
              THEN LET d == Elapsed(e1.Createdtime, e1.Initializedtime)
                   IN  [e1 EXCEPT !.Nodereadytime = d,
                                  !.Nodereadytimesec = Seconds(d)]
              ELSE e1
    IN  [e2 EXCEPT !.Initialized = (m[1] # "")]

\* the entry the "initialized nodeclaim" case stores
InitializedEntry(entry, m) ==
    LET e1 == [entry EXCEPT !.Initializedtime = m[1]]
        e2 == IF e1.Initializedtime # "" /\ e1.Createdtime # ""
              THEN LET d == Elapsed(e1.Createdtime, e1.Initializedtime)
                   IN  [e1 EXCEPT !.Nodereadytime = d,
                                  !.Nodereadytimesec = Seconds(d)]
              ELSE e1
    IN  [e2 EXCEPT !.Initialized = TRUE]

\* case "initialized nodeclaim"
caseInitialized(l, msg, ncm, knm, inputline, filename) ==
    LET m == matchTimeNodeClaim(l)
    IN  IF m = <<>> THEN SyntaxError(msg, inputline, filename)
        ELSE IF m[2] = "" THEN EmptyNodeClaim(msg, inputline, filename)
        ELSE IF m[2] \in DOMAIN ncm
        THEN Outcome(<<NcStore(m[2], InitializedEntry(ncm[m[2]], m))>>,
                     IF m[1] = ""
                     THEN <<Diag(ErrEmptyInitialized, msg, inputline, filename)>>
                     ELSE <<>>)
        ELSE Nothing

\* DisruptingEntry keeping the counts of an earlier disruption
DisruptingEntryKeepsCounts(entry, m) ==
    IF entry.Disruptiontime = ""
    THEN [entry EXCEPT !.Disruptiontime = m[1], !.Disruptionreason = m[2],
                       !.Disruptiondecision = m[3], !.Disruptednodecount = m[4],
                       !.Replacementnodecount = m[5], !.Disruptedpodcount = m[6]]
    ELSE [entry EXCEPT !.Disruptiontime = m[1], !.Disruptionreason = m[2],
                       !.Disruptiondecision = m[3]]

\* the entry the "disrupting node(s)" case stores
DisruptingEntry(entry, m) ==
    [entry EXCEPT !.Disruptiontime = m[1], !.Disruptionreason = m[2],
                  !.Disruptiondecision = m[3], !.Disruptednodecount = m[4],
                  !.Replacementnodecount = m[5], !.Disruptedpodcount = m[6]]

\* case "disrupting node(s)"
caseDisrupting(l, msg, ncm, knm, inputline, filename) ==
    LET m == matchDisrupting(l)
    IN  IF m = <<>> THEN SyntaxError(msg, inputline, filename)
        ELSE IF m[7] = "" THEN EmptyNodeClaim(msg, inputline, filename)
        ELSE IF m[7] \in DOMAIN ncm
        THEN Outcome(<<NcStore(m[7], DisruptingEntry(ncm[m[7]], m))>>, <<>>)
        ELSE Nothing

\* InterruptionEntry marking the nodeclaim as deleted at the interruption
InterruptionEntryMarksDeleted(entry, m) ==
    [entry EXCEPT !.Interruptiontime = m[1], !.Interruptionkind = m[2],
                  !.Deletedtime = m[1], !.Deleted = TRUE]

\* the entry the "initiating delete from interruption message" case stores
InterruptionEntry(entry, m) ==
    [entry EXCEPT !.Interruptiontime = m[1], !.Interruptionkind = m[2]]

\* case "initiating delete from interruption message"
caseInterruption(l, msg, ncm, knm, inputline, filename) ==
    LET m == matchInterruption(l)
    IN  IF m = <<>> THEN SyntaxError(msg, inputline, filename)
        ELSE IF m[3] = "" THEN EmptyNodeClaim(msg, inputline, filename)
        ELSE IF m[3] \in DOMAIN ncm
        THEN Outcome(<<NcStore(m[3], InterruptionEntry(ncm[m[3]], m))>>, <<>>)
        ELSE Nothing

\* AnnotationKey appending the key to what the record holds
AnnotationKeyAppends(old, key) == IF old = "" THEN key ELSE old \o "," \o key

\* entry.Annotation after the key (case 2) and after the value (case 3)
AnnotationKey(old, key) == key
AnnotationValue(old, val) == SprintfColon(old, val)

\* the entries the "annotated nodeclaim" case stores, one per sub-match
AnnotatedEntries(entry, m) ==
    LET e0 == [entry EXCEPT !.Annotationtime = m[1]]
        e2 == [e0 EXCEPT !.Annotation = AnnotationKey(e0.Annotation, m[3])]
        e3 == [e2 EXCEPT !.Annotation = AnnotationValue(e2.Annotation, m[4])]
    IN  <<e0, e0, e2, e3>>

\* case "annotated nodeclaim"
caseAnnotated(l, msg, ncm, knm, inputline, filename) ==
    LET m == matchAnnotated(l)
    IN  IF m = <<>> THEN SyntaxError(msg, inputline, filename)
        ELSE IF m[2] = "" THEN EmptyNodeClaim(msg, inputline, filename)
        ELSE IF m[2] \in DOMAIN ncm
        THEN LET es == AnnotatedEntries(ncm[m[2]], m)
             IN  Outcome([i \in 1..Len(es) |-> NcStore(m[2], es[i])], <<>>)
        ELSE Nothing

\* TaintKey appending the key to what the record holds
TaintKeyAppends(old, key) == IF old = "" THEN key ELSE old \o "," \o key

\* entry.Taint after the key (case 2) and after value and effect (cases 3, 4)
TaintKey(old, key) == key
TaintAppend(old, val) == SprintfColon(old, val)

\* the entries both "tainted node" cases with taint fields store, one per
\* sub-match
TaintedEntries(entry, m) ==
    LET e0 == [entry EXCEPT !.Tainttime = m[1]]
        e2 == [e0 EXCEPT !.Taint = TaintKey(e0.Taint, m[3])]
        e3 == [e2 EXCEPT !.Taint = TaintAppend(e2.Taint, m[4])]
        e4 == [e3 EXCEPT !.Taint = TaintAppend(e3.Taint, m[5])]
    IN  <<e0, e0, e2, e3, e4>>

\* TaintedOnlyEntries emptying the taint composite
TaintedOnlyEntriesResetsTaint(entry, m) ==
    LET e0 == [entry EXCEPT !.Tainttime = m[1], !.Taint = ""]
    IN  <<e0, e0>>

\* the entries the oldest "tainted node" case stores
TaintedOnlyEntries(entry, m) ==
    LET e0 == [entry EXCEPT !.Tainttime = m[1]]
    IN  <<e0, e0>>

\* "tainted node", Karpenter 1.1.x+: the line names the nodeclaim
caseTaintedNodeClaim(m, msg, ncm, knm, inputline, filename) ==
    IF m[2] = "" THEN EmptyNodeClaim(msg, inputline, filename)
    ELSE IF m[2] \in DOMAIN ncm
    THEN LET es == TaintedEntries(ncm[m[2]], m)
             empties == SelectSeq(<<1, 2, 3, 5>>, LAMBDA i : m[i] = "")
         IN  Outcome([i \in 1..Len(es) |-> NcStore(m[2], es[i])],
                     [i \in 1..Len(empties) |->
                          Diag(ErrEmptyNodeName, msg, inputline, filename)])
    ELSE Nothing

\* "tainted node", Karpenter 1.0.x: the line names the node only
caseTaintedNode(m, msg, ncm, knm, inputline, filename) ==
    IF m[2] = "" THEN EmptyNodeName(msg, inputline, filename)
    ELSE IF m[2] \in DOMAIN knm
    THEN LET nodeclaim == knm[m[2]]
         IN  IF nodeclaim \in DOMAIN ncm
             THEN LET es == TaintedEntries(ncm[nodeclaim], m)
                  IN  Outcome([i \in 1..Len(es) |-> NcStore(nodeclaim, es[i])], <<>>)
             ELSE Nothing
    ELSE NoNodeClaim(m[2], inputline, filename)

\* caseTaintedNodeOnly passing over the record of a deleted nodeclaim
caseTaintedNodeOnlySkipsDeleted(m, msg, ncm, knm, inputline, filename) ==
    IF m[2] = "" THEN EmptyNodeName(msg, inputline, filename)
    ELSE IF m[2] \in DOMAIN knm
    THEN LET nodeclaim == knm[m[2]]
         IN  IF nodeclaim \in DOMAIN ncm /\ ~ncm[nodeclaim].Deleted
             THEN LET es == TaintedOnlyEntries(ncm[nodeclaim], m)
                  IN  Outcome([i \in 1..Len(es) |-> NcStore(nodeclaim, es[i])], <<>>)
             ELSE Nothing
    ELSE Nothing

\* "tainted node", Karpenter 0.37.x: the node and no taint fields
caseTaintedNodeOnly(m, msg, ncm, knm, inputline, filename) ==
    IF m[2] = "" THEN EmptyNodeName(msg, inputline, filename)
    ELSE IF m[2] \in DOMAIN knm
    THEN LET nodeclaim == knm[m[2]]
         IN  IF nodeclaim \in DOMAIN ncm
             THEN LET es == TaintedOnlyEntries(ncm[nodeclaim], m)
                  IN  Outcome([i \in 1..Len(es) |-> NcStore(nodeclaim, es[i])], <<>>)
             ELSE NoNodeClaim(m[2], inputline, filename)
    ELSE Nothing

\* caseTainted going on to the patterns that name the node when the nodeclaim
\* the first pattern extracted is empty or has no record
caseTaintedFallsBack(l, msg, ncm, knm, inputline, filename) ==
    IF matchTaintedNodeClaim(l) # <<>>
       /\ matchTaintedNodeClaim(l)[2] # ""
       /\ matchTaintedNodeClaim(l)[2] \in DOMAIN ncm
    THEN caseTaintedNodeClaim(matchTaintedNodeClaim(l), msg, ncm, knm, inputline, filename)
    ELSE IF matchTaintedNode(l) # <<>>
    THEN caseTaintedNode(matchTaintedNode(l), msg, ncm, knm, inputline, filename)
    ELSE IF matchTaintedNodeOnly(l) # <<>>
    THEN caseTaintedNodeOnly(matchTaintedNodeOnly(l), msg, ncm, knm, inputline, filename)
    ELSE SyntaxError(msg, inputline, filename)

\* case "tainted node": the first pattern that matches decides
caseTainted(l, msg, ncm, knm, inputline, filename) ==
    IF matchTaintedNodeClaim(l) # <<>>
    THEN caseTaintedNodeClaim(matchTaintedNodeClaim(l), msg, ncm, knm, inputline, filename)
    ELSE IF matchTaintedNode(l) # <<>>
    THEN caseTaintedNode(matchTaintedNode(l), msg, ncm, knm, inputline, filename)
    ELSE IF matchTaintedNodeOnly(l) # <<>>
    THEN caseTaintedNodeOnly(matchTaintedNodeOnly(l), msg, ncm, knm, inputline, filename)
    ELSE SyntaxError(msg, inputline, filename)

\* the entry the "deleted nodeclaim" case stores
DeletedEntry(entry, m) ==
    LET e1 == [entry EXCEPT !.Deletedtime = m[1]]
        e2 == IF e1.Deletedtime # "" /\ e1.Createdtime # ""
              THEN LET d == Elapsed(e1.Createdtime, e1.Deletedtime)
                   IN  [e1 EXCEPT !.Nodelifecycletime = d,
                                  !.Nodelifecycletimesec = Seconds(d)]
              ELSE e1
        e3 == IF e2.Deletedtime # "" /\ e2.Annotationtime # ""
              THEN LET d == Elapsed(e2.Annotationtime, e2.Deletedtime)
                   IN  [e2 EXCEPT !.Nodeterminationtime = d,
                                  !.Nodeterminationtimesec = Seconds(d)]
              ELSE e2
    IN  [e3 EXCEPT !.Deleted = TRUE]

\* case "deleted nodeclaim"
caseDeleted(l, msg, ncm, knm, inputline, filename) ==
    LET m == matchTimeNodeClaim(l)
    IN  IF m = <<>> THEN SyntaxError(msg, inputline, filename)
        ELSE IF m[2] = "" THEN EmptyNodeClaim(msg, inputline, filename)
        ELSE IF m[2] \in DOMAIN ncm
        THEN Outcome(<<NcStore(m[2], DeletedEntry(ncm[m[2]], m))>>,
                     IF m[1] = ""
                     THEN <<Diag(ErrEmptyDeleted, msg, inputline, filename)>>
                     ELSE <<>>)
        ELSE Nothing

\* a default case that reports the kind as a parsing error
caseDefaultReports(l, msg, ncm, knm, inputline, filename) ==
    SyntaxError(msg, inputline, filename)

\* the switch has no default case: any other kind falls through
caseDefault(l, msg, ncm, knm, inputline, filename) == Nothing

\* the nine message kinds of the switch
MsgCreated == "created nodeclaim"
MsgLaunched == "launched nodeclaim"
MsgRegistered == "registered nodeclaim"
MsgInitialized == "initialized nodeclaim"
MsgDisrupting == "disrupting node(s)"
MsgInterruption == "initiating delete from interruption message"
MsgAnnotated == "annotated nodeclaim"
MsgTainted == "tainted node"
MsgDeleted == "deleted nodeclaim"

MessageKinds ==
    {MsgCreated, MsgLaunched, MsgRegistered, MsgInitialized, MsgDisrupting,
     MsgInterruption, MsgAnnotated, MsgTainted, MsgDeleted}

\* the switch on matchslice[1]; inputline is the caller's value, which the
\* function increments in its own copy
ParseKarpenterLogs(l, ncm, knm, filename, inputline) ==
    LET matchslice == matchMessage(l)
        msg == matchslice[1]
        line == inputline + 1
    IN  IF matchslice = <<>> THEN Nothing
        ELSE CASE msg = MsgCreated -> caseCreated(l, msg, ncm, knm, line, filename)
               [] msg = MsgLaunched -> caseLaunched(l, msg, ncm, knm, line, filename)
               [] msg = MsgRegistered -> caseRegistered(l, msg, ncm, knm, line, filename)
               [] msg = MsgInitialized -> caseInitialized(l, msg, ncm, knm, line, filename)
               [] msg = MsgDisrupting -> caseDisrupting(l, msg, ncm, knm, line, filename)
               [] msg = MsgInterruption -> caseInterruption(l, msg, ncm, knm, line, filename)
               [] msg = MsgAnnotated -> caseAnnotated(l, msg, ncm, knm, line, filename)
               [] msg = MsgTainted -> caseTainted(l, msg, ncm, knm, line, filename)
               [] msg = MsgDeleted -> caseDeleted(l, msg, ncm, knm, line, filename)
               [] OTHER -> caseDefault(l, msg, ncm, knm, line, filename)

\* DoStore taking the record of a deleted nodeclaim out of the registry
DoStoreDropsDeleted(maps, st) ==
    IF st.map = "nodeclaimmap"
    THEN IF st.val.Deleted
         THEN [maps EXCEPT !.nodeclaimmap =
                   [k \in DOMAIN maps.nodeclaimmap \ {st.key} |-> maps.nodeclaimmap[k]]]
         ELSE [maps EXCEPT !.nodeclaimmap = MapStore(maps.nodeclaimmap, st.key, st.val)]
    ELSE [maps EXCEPT !.k8snodenamemap = MapStore(maps.k8snodenamemap, st.key, st.val)]

\* one store done on the pair of maps
DoStore(maps, st) ==
    IF st.map = "nodeclaimmap"
    THEN [maps EXCEPT !.nodeclaimmap = MapStore(maps.nodeclaimmap, st.key, st.val)]
    ELSE [maps EXCEPT !.k8snodenamemap = MapStore(maps.k8snodenamemap, st.key, st.val)]

\* the stores of one call done in program order
RECURSIVE DoStores(_, _)
DoStores(maps, stores) ==
    IF stores = <<>> THEN maps
    ELSE DoStores(DoStore(maps, Head(stores)), Tail(stores))

Maps(ncm, knm) == [nodeclaimmap |-> ncm, k8snodenamemap |-> knm]

----------------------------------------------------------------------------
(* The lines the inputs are drawn from *)

T0 == "2024-01-01T00:00:00.000Z"
T1 == "2024-01-01T00:01:00.000Z"

\* timestamps the lines whose time enters a duration may carry: none, or one
\* of two instants; the lines of the other kinds carry T1
Times == {"", T0, T1}

\* nodeclaim names and node names a line may carry, besides the empty one
NodeClaims == {"default-abc1", "spot-844xp"}
Nodes == {"ip-10-0-0-1", "ip-10-0-0-2"}

\* the fields every Karpenter line of a known kind carries
BaseLine(msg, t) == [NoiseLine EXCEPT !.message = msg, !.time = t]

CreatedLine(t, nc, it) ==
    [BaseLine(MsgCreated, t) EXCEPT !.NodePool = "default", !.NodeClaim = nc,
                                    !.instancetypes = it]

LaunchedLine(t, nc) ==
    [BaseLine(MsgLaunched, t) EXCEPT !.NodeClaim = nc,
        !.providerid = "aws:///us-west-2a/i-0abc", !.instancetype = "m5.large",
        !.zone = "us-west-2a", !.capacitytype = "spot"]

RegisteredLine(t, nc, n) ==
    [BaseLine(MsgRegistered, t) EXCEPT !.NodeClaim = nc, !.Node = n]

InitializedLine(t, nc) ==
    [BaseLine(MsgInitialized, t) EXCEPT !.NodeClaim = nc, !.namespace = ""]

DisruptingLine(t, nc, d) ==
    [BaseLine(MsgDisrupting, t) EXCEPT !.NodeClaim = nc, !.reason = d[1],
        !.decision = d[2], !.disruptednodecount = d[3],
        !.replacementnodecount = d[4], !.podcount = d[5], !.capacitytype = "spot"]

InterruptionLine(t, nc) ==
    [BaseLine(MsgInterruption, t) EXCEPT !.NodeClaim = nc,
                                         !.messageKind = "spot_interrupted"]

AnnotatedLine(t, nc, a) ==
    [BaseLine(MsgAnnotated, t) EXCEPT !.NodeClaim = nc, !.namespace = "",
                                      !.lastkey = a[1], !.lastvalue = a[2]]

TaintedNodeClaimLine(t, nc, k) ==
    [BaseLine(MsgTainted, t) EXCEPT !.Node = "ip-10-0-0-1", !.namespace = "",
        !.NodeClaim = nc, !.taintKey = k[1], !.taintValue = k[2],
        !.taintEffect = k[3]]

TaintedNodeLine(t, n, k) ==
    [BaseLine(MsgTainted, t) EXCEPT !.Node = n, !.namespace = "",
        !.taintKey = k[1], !.taintValue = k[2], !.taintEffect = k[3]]

TaintedNodeOnlyLine(t, n) ==
    [BaseLine(MsgTainted, t) EXCEPT !.Node = n, !.namespace = ""]

DeletedLine(t, nc) ==
    [BaseLine(MsgDeleted, t) EXCEPT !.NodeClaim = nc, !.namespace = ""]

\* payloads
InstanceTypeLists == {"m5.large, c5.large and 3 other(s)"}
Disruptions == {<<"underutilized", "delete", "1", "0", "3">>,
                <<"drifted", "replace", "2", "1", "5">>}
Annotations == {<<"karpenter.sh/do-not-disrupt", "true">>,
                <<"termination-timestamp", "soon">>}
Taints == {<<"karpenter.sh/disrupted", "", "NoSchedule">>,
           <<"dedicated", "gpu", "NoExecute">>}

\* per kind: the lines that name a nodeclaim (or a node), and one line whose
\* name is empty
CreatedLines ==
    {CreatedLine(t, nc, it) : t \in Times, nc \in NodeClaims, it \in InstanceTypeLists}
    \cup {CreatedLine(T0, "", it) : it \in InstanceTypeLists}
LaunchedLines == {LaunchedLine(T1, nc) : nc \in NodeClaims \cup {""}}
RegisteredLines ==
    {RegisteredLine(T1, nc, n) : nc \in NodeClaims, n \in Nodes}
    \cup {RegisteredLine(T1, "", "ip-10-0-0-1"), RegisteredLine(T1, "default-abc1", "")}
InitializedLines ==
    {InitializedLine(t, nc) : t \in Times, nc \in NodeClaims}
    \cup {InitializedLine(T1, "")}
DisruptingLines ==
    {DisruptingLine(T1, nc, d) : nc \in NodeClaims, d \in Disruptions}
    \cup {DisruptingLine(T1, "", d) : d \in {<<"drifted", "replace", "2", "1", "5">>}}
InterruptionLines == {InterruptionLine(T1, nc) : nc \in NodeClaims \cup {""}}
AnnotatedLines ==
    {AnnotatedLine(t, nc, a) : t \in Times, nc \in NodeClaims, a \in Annotations}
    \cup {AnnotatedLine(T1, "", a) : a \in {<<"termination-timestamp", "soon">>}}
TaintedLines ==
    {TaintedNodeClaimLine(T1, nc, k) : nc \in NodeClaims \cup {""}, k \in Taints}
    \cup {TaintedNodeClaimLine("", "default-abc1", k) : k \in {<<"", "", "">>}}
    \cup {TaintedNodeLine(T1, n, k) : n \in Nodes \cup {""}, k \in Taints}
    \cup {TaintedNodeOnlyLine(T1, n) : n \in Nodes \cup {""}}
DeletedLines ==
    {DeletedLine(t, nc) : t \in Times, nc \in NodeClaims} \cup {DeletedLine(T1, "")}

\* lines of a known kind whose fields match none of the kind's patterns
MalformedLines == {BaseLine(msg, T0) : msg \in MessageKinds}

\* lines of no kind, and lines of a kind the switch does not know
OtherLines == {NoiseLine, BaseLine("computed new nodeclaim(s) to fit pod(s)", T0)}

Lines ==
    CreatedLines \cup LaunchedLines \cup RegisteredLines \cup InitializedLines
    \cup DisruptingLines \cup InterruptionLines \cup AnnotatedLines
    \cup TaintedLines \cup DeletedLines \cup MalformedLines \cup OtherLines

----------------------------------------------------------------------------
(* The sequential modes (main.go: STDIN and files): one scanner loop *)

\* the ids of the created events stored so far, after line l
CreatedAfter(ids, l) ==
    IF matchMessage(l) = <<MsgCreated>> /\ matchCreated(l) # <<>>
    THEN ids \cup {matchCreated(l)[3]}
    ELSE ids

\* for scanner.Scan() { ParseKarpenterLogs(scanner.Text(), ..., "STDIN", inputline) }
ScanLine(l) ==
    LET out == ParseKarpenterLogs(l, nodeclaimmap, k8snodenamemap, "STDIN", 0)
        after == DoStores(Maps(nodeclaimmap, k8snodenamemap), out.stores)
    IN  /\ scanned < MaxLines
        /\ scanned' = scanned + 1
        /\ logline' = l
        /\ stderr' = out.err
        /\ nodeclaimmap' = after.nodeclaimmap
        /\ k8snodenamemap' = after.k8snodenamemap
        /\ created' = CreatedAfter(created, l)
        /\ before' = Maps(nodeclaimmap, k8snodenamemap)
        /\ UNCHANGED concvars
        /\ UNCHANGED filevars
        /\ UNCHANGED cmvars
        /\ UNCHANGED sigvars
        /\ UNCHANGED argvars

Init ==
    /\ nodeclaimmap = EmptyMap
    /\ k8snodenamemap = EmptyMap
    /\ logline = NoiseLine
    /\ stderr = <<>>
    /\ scanned = 0
    /\ created = {}
    /\ before = Maps(EmptyMap, EmptyMap)
    /\ pc = EmptyMap
    /\ pending = EmptyMap
    /\ consumed = EmptyMap
    /\ snapshot = <<>>
    /\ todo = {}
    /\ boundary = EmptyMap
    /\ file = <<>>
    /\ rows = <<>>
    /\ stdout = <<>>
    /\ configmap = NoConfigMap
    /\ persisted = NoConfigMap
    /\ sigch = 0
    /\ helpers = 0
    /\ interrupted = FALSE
    /\ finalexports = 0
    /\ args = <<>>
    /\ argi = 0

Next == \E l \in Lines : ScanLine(l)

Spec == Init /\ [][Next]_vars

----------------------------------------------------------------------------
(* Cluster mode (k8s.go): CollectKarpenterLogs starts one NonBlockingParser
   goroutine per Karpenter pod and the nodeclaimsConfigMap goroutine; all of
   them work on the two maps, and nothing orders their accesses.  A step of
   a goroutine is one access to the maps (the lookups of a call count as
   one). *)

Pods == {"karpenter-1", "karpenter-2"}

\* the nodeclaimsConfigMap goroutine
CM == "nodeclaimsConfigMap"

\* the lines the pods' log streams are drawn from
StreamLines ==
    {CreatedLine(T0, "default-abc1", "m5.large, c5.large and 3 other(s)"),
     LaunchedLine(T1, "default-abc1"),
     RegisteredLine(T1, "default-abc1", "ip-10-0-0-1"),
     AnnotatedLine(T0, "default-abc1", <<"termination-timestamp", "soon">>),
     TaintedNodeLine(T1, "ip-10-0-0-1", <<"dedicated", "gpu", "NoExecute">>),
     DeletedLine(T1, "spot-844xp")}

InitCluster ==
    /\ nodeclaimmap = EmptyMap
    /\ k8snodenamemap = EmptyMap
    /\ logline = NoiseLine
    /\ stderr = <<>>
    /\ scanned = 0
    /\ created = {}
    /\ before = Maps(EmptyMap, EmptyMap)
    /\ pc = [g \in Pods \cup {CM} |-> IF g = CM THEN "tick" ELSE "scan"]
    /\ pending = [p \in Pods |-> <<>>]
    /\ consumed = [p \in Pods |-> <<>>]
    /\ snapshot = <<>>
    /\ todo = {}
    /\ boundary = EmptyMap
    /\ file = <<>>
    /\ rows = <<>>
    /\ stdout = <<>>
    /\ configmap = NoConfigMap
    /\ persisted = NoConfigMap
    /\ sigch = 0
    /\ helpers = 0
    /\ interrupted = FALSE
    /\ finalexports = 0
    /\ args = <<>>
    /\ argi = 0

\* the values a record has had between whole calls, with one more
BoundaryAfter(b, key, val) ==
    MapStore(b, key, (IF key \in DOMAIN b THEN b[key] ELSE {}) \cup {val})

\* NonBlockingParser: scanner.Scan() delivers a line and ParseKarpenterLogs
\* runs up to its first store
PodScan(p, l) ==
    LET out == ParseKarpenterLogs(l, nodeclaimmap, k8snodenamemap, "STDIN", 0)
    IN  /\ pc[p] = "scan"
        /\ Len(consumed[p]) < MaxStreamLines
        /\ consumed' = [consumed EXCEPT ![p] = Append(@, l)]
        /\ pending' = [pending EXCEPT ![p] = out.stores]
        /\ pc' = [pc EXCEPT ![p] = IF out.stores = <<>> THEN "scan" ELSE "store"]
        /\ stderr' = out.err
        /\ UNCHANGED filevars
        /\ UNCHANGED cmvars
        /\ UNCHANGED sigvars
        /\ UNCHANGED argvars
        /\ UNCHANGED <<nodeclaimmap, k8snodenamemap, logline, scanned, created,
                       before, snapshot, todo, boundary>>

\* the next store of the call a parser goroutine is in
PodStore(p) ==
    LET st == Head(pending[p])
        after == DoStore(Maps(nodeclaimmap, k8snodenamemap), st)
        last == Len(pending[p]) = 1
    IN  /\ pc[p] = "store"
        /\ nodeclaimmap' = after.nodeclaimmap
        /\ k8snodenamemap' = after.k8snodenamemap
        /\ pending' = [pending EXCEPT ![p] = Tail(@)]
        /\ pc' = [pc EXCEPT ![p] = IF last THEN "scan" ELSE "store"]
        /\ boundary' = IF last /\ st.map = "nodeclaimmap"
                       THEN BoundaryAfter(boundary, st.key, st.val)
                       ELSE boundary
        /\ UNCHANGED filevars
        /\ UNCHANGED cmvars
        /\ UNCHANGED sigvars
        /\ UNCHANGED argvars
        /\ UNCHANGED <<logline, stderr, scanned, created, before, consumed,
                       snapshot, todo>>

\* scanner.Scan() returns false: the pod's log stream has ended
PodStreamEnds(p) ==
    /\ pc[p] = "scan"
    /\ pc' = [pc EXCEPT ![p] = "done"]
    /\ UNCHANGED filevars
    /\ UNCHANGED cmvars
    /\ UNCHANGED sigvars
    /\ UNCHANGED argvars
    /\ UNCHANGED <<nodeclaimmap, k8snodenamemap, logline, stderr, scanned,
                   created, before, pending, consumed, snapshot, todo, boundary>>

\* the Go runtime finds a store into a map overlapping another goroutine's
\* access to it ("fatal error: concurrent map writes"): the process dies
MapFault(p) ==
    /\ pc[p] = "store"
    /\ \E g \in (Pods \cup {CM}) \ {p} : pc[g] \in {"store", "range"}
    /\ pc' = [g \in DOMAIN pc |-> "fatal"]
    /\ UNCHANGED filevars
    /\ UNCHANGED cmvars
    /\ UNCHANGED sigvars
    /\ UNCHANGED argvars
    /\ UNCHANGED <<nodeclaimmap, k8snodenamemap, logline, stderr, scanned,
                   created, before, pending, consumed, snapshot, todo, boundary>>

\* nodeclaimsConfigMap: a tick of time.Tick(cmupdfreq); ConvertResult starts
\* sortResult's range over the map unless the map is empty
Tick ==
    /\ pc[CM] = "tick"
    /\ snapshot' = <<>>
    /\ todo' = DOMAIN nodeclaimmap
    /\ pc' = [pc EXCEPT ![CM] = IF DOMAIN nodeclaimmap = {} THEN "tick" ELSE "range"]
    /\ UNCHANGED filevars
    /\ UNCHANGED cmvars
    /\ UNCHANGED sigvars
    /\ UNCHANGED argvars
    /\ UNCHANGED <<nodeclaimmap, k8snodenamemap, logline, stderr, scanned,
                   created, before, pending, consumed, boundary>>

Visited == {snapshot[i].key : i \in 1..Len(snapshot)}

\* sortResult: the range reaches a key the slice does not hold yet, one the
\* range began with or one stored since
RangeStep(k) ==
    /\ pc[CM] = "range"
    /\ k \in DOMAIN nodeclaimmap \ Visited
    /\ snapshot' = Append(snapshot, [key |-> k, value |-> nodeclaimmap[k]])
    /\ UNCHANGED filevars
    /\ UNCHANGED cmvars
    /\ UNCHANGED sigvars
    /\ UNCHANGED argvars
    /\ UNCHANGED <<nodeclaimmap, k8snodenamemap, logline, stderr, scanned,
                   created, before, pc, pending, consumed, todo, boundary>>

\* sortResult: the range ends once it has reached every key it began with
RangeEnds ==
    /\ pc[CM] = "range"
    /\ todo \subseteq Visited
    /\ pc' = [pc EXCEPT ![CM] = "tick"]
    /\ UNCHANGED filevars
    /\ UNCHANGED cmvars
    /\ UNCHANGED sigvars
    /\ UNCHANGED argvars
    /\ UNCHANGED <<nodeclaimmap, k8snodenamemap, logline, stderr, scanned,
                   created, before, pending, consumed, snapshot, todo, boundary>>

NextCluster ==
    \/ \E p \in Pods, l \in StreamLines : PodScan(p, l)
    \/ \E p \in Pods : PodStore(p)
    \/ \E p \in Pods : PodStreamEnds(p)
    \/ \E p \in Pods : MapFault(p)
    \/ Tick
    \/ \E k \in DOMAIN nodeclaimmap : RangeStep(k)
    \/ RangeEnds

ClusterSpec == InitCluster /\ [][NextCluster]_vars

\* the maps after whole calls for the lines of two streams, one call at a
\* time, in every order that keeps each stream's own order
RECURSIVE SerialResults(_, _, _)
SerialResults(maps, s1, s2) ==
    LET step(l) == DoStores(maps, ParseKarpenterLogs(l, maps.nodeclaimmap,
                                      maps.k8snodenamemap, "STDIN", 0).stores)
    IN  IF s1 = <<>> /\ s2 = <<>> THEN {maps}
        ELSE (IF s1 = <<>> THEN {} ELSE SerialResults(step(Head(s1)), Tail(s1), s2))
             \cup
             (IF s2 = <<>> THEN {} ELSE SerialResults(step(Head(s2)), s1, Tail(s2)))

----------------------------------------------------------------------------
(* The export: sortResult and PrintSortedResult (parser.go:544-578) *)

\* the bytes that occur in the Createdtime strings of the model, in byte order
Bytes == "-.0123456789:TZno"

ByteRank(c) == CHOOSE i \in 1..Len(Bytes) : SubSeq(Bytes, i, i) = c

\* a < b on Go strings: bytewise lexical order
RECURSIVE StringLess(_, _)
StringLess(a, b) ==
    IF b = "" THEN FALSE
    ELSE IF a = "" THEN TRUE
    ELSE LET x == ByteRank(SubSeq(a, 1, 1))
             y == ByteRank(SubSeq(b, 1, 1))
         IN  IF x # y THEN x < y
             ELSE StringLess(SubSeq(a, 2, Len(a)), SubSeq(b, 2, Len(b)))

\* the less function sortResult hands to sort.SliceStable
less(x, y) == StringLess(x.value.Createdtime, y.value.Createdtime)

\* x put into a sorted slice behind every element that is not greater
RECURSIVE InsertStable(_, _)
InsertStable(sorted, x) ==
    IF sorted = <<>> THEN <<x>>
    ELSE IF less(x, Head(sorted)) THEN <<x>> \o sorted
    ELSE <<Head(sorted)>> \o InsertStable(Tail(sorted), x)

\* a slice left in the order it came in
SliceUnsorted(s) == s

\* sort.SliceStable(s, less): the sorted permutation of s in which elements
\* that are not less than each other keep the order they have in s
RECURSIVE SliceStable(_)
SliceStable(s) ==
    IF s = <<>> THEN <<>>
    ELSE InsertStable(SliceStable(SubSeq(s, 1, Len(s) - 1)), s[Len(s)])

\* the orders in which `for k, v := range *nodeclaimmap` may visit the keys:
\* Go leaves the iteration order of a map unspecified
RangeOrders(ncm) ==
    {o \in [1..Cardinality(DOMAIN ncm) -> DOMAIN ncm] :
        \A i, j \in DOMAIN o : i # j => o[i] # o[j]}

\* sortResult, for the order its range visits the keys in
sortResult(order, ncm) ==
    SliceStable([i \in DOMAIN order |-> [key |-> order[i], value |-> ncm[order[i]]]])

\* "No results - empty nodeclaim map"
ErrNoResults == "No results - empty nodeclaim map"

\* the column names of the tabular export
header == "nodeclaim,createdtime,nodepool,instancetypes,launchedtime,providerid,instancetype,zone,capacitytype,registeredtime,k8snodename,initializedtime,nodereadytime,nodereadytimesec,disruptiontime,disruptionreason,disruptiondecision,disruptednodecount,replacementnodecount,disruptedpodcount,annotationtime,annotation,tainttime,taint,interruptiontime,interruptionkind,deletedtime,nodeterminationtime,nodeterminationtimesec,nodelifecycletime,nodelifecycletimesec,initialized,deleted"

\* strings.Split(s, sep) for a separator of one byte
Split(s, sep) ==
    LET at == {i \in 1..Len(s) : SubSeq(s, i, i) = sep}
        n == Cardinality(at)
        pos(k) == IF k = 0 THEN 0
                  ELSE IF k = n + 1 THEN Len(s) + 1
                  ELSE CHOOSE i \in at : Cardinality({j \in at : j <= i}) = k
    IN  [k \in 1..(n + 1) |-> SubSeq(s, pos(k - 1) + 1, pos(k) - 1)]

\* strings.Join(elems, sep)
RECURSIVE Join(_, _)
Join(elems, sep) ==
    IF elems = <<>> THEN ""
    ELSE IF Len(elems) = 1 THEN elems[1]
    ELSE elems[1] \o sep \o Join(Tail(elems), sep)

\* %d of a number that is not negative
RECURSIVE Itoa(_)
Itoa(n) ==
    IF n < 10 THEN SubSeq(Digits, n + 1, n + 1)
    ELSE Itoa(n \div 10) \o SubSeq(Digits, (n % 10) + 1, (n % 10) + 1)

\* headerIndex: every column name followed by its 1-based index in brackets
headerIndex ==
    LET headerSlice == Split(header, ",")
    IN  Join([index \in DOMAIN headerSlice |->
                 headerSlice[index] \o "[" \o Itoa(index) \o "]"], ",")

\* %s of a time.Duration of whole seconds (Duration.String)
DurationString(d) ==
    LET u == IF d < 0 THEN 0 - d ELSE d
        h == u \div 3600
        m == (u % 3600) \div 60
        sec == u % 60
        text == IF h > 0 THEN Itoa(h) \o "h" \o Itoa(m) \o "m" \o Itoa(sec) \o "s"
                ELSE IF m > 0 THEN Itoa(m) \o "m" \o Itoa(sec) \o "s"
                ELSE Itoa(sec) \o "s"
    IN  IF d < 0 THEN "-" \o text ELSE text

\* %.1f of a whole number of seconds
SprintfF1(x) == IF x < 0 THEN "-" \o Itoa(0 - x) \o ".0" ELSE Itoa(x) \o ".0"

\* %t
SprintfT(b) == IF b THEN "true" ELSE "false"

\* the arguments after v.key, with Zone and Capacitytype in each other's place
FieldTextsSwapped(v) ==
    <<v.Createdtime, v.Nodepool, v.Instancetypes, v.Launchedtime, v.Providerid,
      v.Instancetype, v.Capacitytype, v.Zone, v.Registeredtime, v.K8snodename,
      v.Initializedtime, DurationString(v.Nodereadytime), SprintfF1(v.Nodereadytimesec),
      v.Disruptiontime, v.Disruptionreason, v.Disruptiondecision,
      v.Disruptednodecount, v.Replacementnodecount, v.Disruptedpodcount,
      v.Annotationtime, v.Annotation, v.Tainttime, v.Taint, v.Interruptiontime,
      v.Interruptionkind, v.Deletedtime, DurationString(v.Nodeterminationtime),
      SprintfF1(v.Nodeterminationtimesec), DurationString(v.Nodelifecycletime),
      SprintfF1(v.Nodelifecycletimesec), SprintfT(v.Initialized), SprintfT(v.Deleted)>>

\* the arguments after v.key of the Printf of PrintSortedResult, each as its
\* verb prints it; ConvertResult hands the same list to its Sprintf
FieldTexts(v) ==
    <<v.Createdtime, v.Nodepool, v.Instancetypes, v.Launchedtime, v.Providerid,
      v.Instancetype, v.Zone, v.Capacitytype, v.Registeredtime, v.K8snodename,
      v.Initializedtime, DurationString(v.Nodereadytime), SprintfF1(v.Nodereadytimesec),
      v.Disruptiontime, v.Disruptionreason, v.Disruptiondecision,
      v.Disruptednodecount, v.Replacementnodecount, v.Disruptedpodcount,
      v.Annotationtime, v.Annotation, v.Tainttime, v.Taint, v.Interruptiontime,
      v.Interruptionkind, v.Deletedtime, DurationString(v.Nodeterminationtime),
      SprintfF1(v.Nodeterminationtimesec), DurationString(v.Nodelifecycletime),
      SprintfF1(v.Nodelifecycletimesec), SprintfT(v.Initialized), SprintfT(v.Deleted)>>

\* the lines PrintSortedResult prints for the sorted slice s
Printed(s) ==
    <<headerIndex>> \o [i \in DOMAIN s |-> Join(<<s[i].key>> \o FieldTexts(s[i].value), ",")]

----------------------------------------------------------------------------
(* File mode (main.go:88-116): the lines of the input file are parsed one by
   one, then PrintSortedResult prints the registry and the program ends *)

\* the name of the input file
LogFile == "karpenter.log"

\* the timestamp Karpenter writes for the instant sec seconds into the hour
\* of the modelled logs
TwoDigits(n) ==
    SubSeq(Digits, (n \div 10) + 1, (n \div 10) + 1) \o SubSeq(Digits, (n % 10) + 1, (n % 10) + 1)

TimeAt(sec) ==
    "2024-01-01T00:" \o TwoDigits(sec \div 60) \o ":" \o TwoDigits(sec % 60) \o ".000Z"

\* instants, in seconds, at which the events of a lifecycle happen
Instants == {0, 15, 30, 60, 90, 600}

\* strictly increasing instants for created, launched, registered,
\* initialized, deleted
LifecycleInstants ==
    {s \in [1..5 -> Instants] : \A i \in 1..4 : s[i] < s[i + 1]}

\* the log of one nodeclaim's life at the instants s
Lifecycle(nc, s) ==
    <<CreatedLine(TimeAt(s[1]), nc, "m5.large, c5.large and 3 other(s)"),
      LaunchedLine(TimeAt(s[2]), nc),
      RegisteredLine(TimeAt(s[3]), nc, "ip-10-0-0-1"),
      InitializedLine(TimeAt(s[4]), nc),
      DeletedLine(TimeAt(s[5]), nc)>>

LifecycleFiles == {Lifecycle("default-abc1", s) : s \in LifecycleInstants}

\* a "time" that is not empty and that datetime.Parse rejects
BadTime == "noon"

FileTimes == {"", T0, T1, BadTime}

\* logs in which the timestamps that enter the durations are absent, good or
\* bad in every combination
DurationFiles ==
    {<<CreatedLine(a, "default-abc1", "m5.large, c5.large and 3 other(s)"),
       AnnotatedLine(b, "default-abc1", <<"termination-timestamp", "soon">>),
       InitializedLine(c, "default-abc1"),
       DeletedLine(d, "default-abc1")>> : a \in FileTimes, b \in FileTimes,
                                           c \in FileTimes, d \in FileTimes}

\* logs that create three nodeclaims, in every order of arrival and with
\* every choice of creation times, equal ones included
SortedIds == NodeClaims \cup {"gpu-7k2xq"}

SortFiles ==
    {[i \in 1..3 |-> CreatedLine(t[i], o[i], "m5.large, c5.large and 3 other(s)")] :
        t \in [1..3 -> FileTimes],
        o \in {f \in [1..3 -> SortedIds] : \A i, j \in 1..3 : i # j => f[i] # f[j]}}

\* logs in which a line of any kind comes between the registration and the
\* deletion of a nodeclaim
EventFiles ==
    {<<CreatedLine(T0, "default-abc1", "m5.large, c5.large and 3 other(s)"),
       RegisteredLine(T1, "default-abc1", "ip-10-0-0-1"),
       l,
       DeletedLine(T1, "default-abc1")>> : l \in Lines}

Files == LifecycleFiles \cup DurationFiles \cup SortFiles \cup EventFiles

InitFile ==
    /\ nodeclaimmap = EmptyMap
    /\ k8snodenamemap = EmptyMap
    /\ logline = NoiseLine
    /\ stderr = <<>>
    /\ scanned = 0
    /\ created = {}
    /\ before = Maps(EmptyMap, EmptyMap)
    /\ pc = [g \in {"main"} |-> "scan"]
    /\ pending = EmptyMap
    /\ consumed = EmptyMap
    /\ snapshot = <<>>
    /\ todo = {}
    /\ boundary = EmptyMap
    /\ file \in Files
    /\ rows = <<>>
    /\ stdout = <<>>
    /\ configmap = NoConfigMap
    /\ persisted = NoConfigMap
    /\ sigch = 0
    /\ helpers = 0
    /\ interrupted = FALSE
    /\ finalexports = 0
    /\ args = <<>>
    /\ argi = 0

\* for scanner.Scan() { ParseKarpenterLogs(scanner.Text(), ..., filename, inputline) }
ScanFileLine ==
    LET l == file[scanned + 1]
        out == ParseKarpenterLogs(l, nodeclaimmap, k8snodenamemap, LogFile, 0)
        after == DoStores(Maps(nodeclaimmap, k8snodenamemap), out.stores)
    IN  /\ pc["main"] = "scan"
        /\ scanned < Len(file)
        /\ scanned' = scanned + 1
        /\ logline' = l
        /\ stderr' = out.err
        /\ nodeclaimmap' = after.nodeclaimmap
        /\ k8snodenamemap' = after.k8snodenamemap
        /\ created' = CreatedAfter(created, l)
        /\ before' = Maps(nodeclaimmap, k8snodenamemap)
        /\ UNCHANGED concvars
        /\ UNCHANGED filevars
        /\ UNCHANGED cmvars
        /\ UNCHANGED sigvars
        /\ UNCHANGED argvars

\* PrintSortedResult after the last line, with the order in which the range
\* of sortResult visits the registry
PrintSortedResult(order) ==
    /\ pc["main"] = "scan"
    /\ scanned = Len(file)
    /\ rows' = IF DOMAIN nodeclaimmap = {} THEN <<>> ELSE sortResult(order, nodeclaimmap)
    /\ stdout' = IF DOMAIN nodeclaimmap = {} THEN <<>>
                 ELSE Printed(sortResult(order, nodeclaimmap))
    /\ stderr' = IF DOMAIN nodeclaimmap = {}
                 THEN <<Diag(ErrNoResults, "", 0, "")>>
                 ELSE <<>>
    /\ before' = Maps(nodeclaimmap, k8snodenamemap)
    /\ pc' = [pc EXCEPT !["main"] = "done"]
    /\ finalexports' = finalexports + 1
    /\ UNCHANGED <<nodeclaimmap, k8snodenamemap, logline, scanned, created,
                   pending, consumed, snapshot, todo, boundary, file>>
    /\ UNCHANGED cmvars
    /\ UNCHANGED <<sigch, helpers, interrupted>>
    /\ UNCHANGED argvars

NextFile ==
    \/ ScanFileLine
    \/ \E order \in RangeOrders(nodeclaimmap) : PrintSortedResult(order)

FileSpec == InitFile /\ [][NextFile]_vars

----------------------------------------------------------------------------
(* What the line last parsed was, in terms of the maps as the call found them *)

LastKind == IF matchMessage(logline) = <<>> THEN Absent ELSE matchMessage(logline)[1]

\* the nodeclaim name the pattern of the line's kind extracted, as a set
\* (empty if the kind has none, no pattern matched, or only a node is named)
ExtractedNodeClaim(l) ==
    LET msg == IF matchMessage(l) = <<>> THEN Absent ELSE matchMessage(l)[1]
        pick(m, i) == IF m = <<>> THEN {} ELSE {m[i]}
    IN  CASE msg = MsgCreated -> pick(matchCreated(l), 3)
          [] msg = MsgLaunched -> pick(matchLaunched(l), 2)
          [] msg = MsgRegistered -> pick(matchRegistered(l), 2)
          [] msg = MsgInitialized -> pick(matchTimeNodeClaim(l), 2)
          [] msg = MsgDisrupting -> pick(matchDisrupting(l), 7)
          [] msg = MsgInterruption -> pick(matchInterruption(l), 3)
          [] msg = MsgAnnotated -> pick(matchAnnotated(l), 2)
          [] msg = MsgTainted -> pick(matchTaintedNodeClaim(l), 2)
          [] msg = MsgDeleted -> pick(matchTimeNodeClaim(l), 2)
          [] OTHER -> {}

\* the node name of a "tainted node" line that names no nodeclaim, as a set
ExtractedNodeOnly(l) ==
    IF matchMessage(l) # <<MsgTainted>> \/ matchTaintedNodeClaim(l) # <<>> THEN {}
    ELSE IF matchTaintedNode(l) # <<>> THEN {matchTaintedNode(l)[2]}
    ELSE IF matchTaintedNodeOnly(l) # <<>> THEN {matchTaintedNodeOnly(l)[2]}
    ELSE {}

\* the ids of the records the last line resolved to: named in the line, or
\* found through the index for the node the line names
ResolvedIds ==
    LET named == ExtractedNodeClaim(logline) \ {""}
        indexed == {before.k8snodenamemap[n] :
                      n \in (ExtractedNodeOnly(logline) \ {""})
                            \cap DOMAIN before.k8snodenamemap}
    IN  (named \cup indexed) \cap DOMAIN before.nodeclaimmap

MapsUnchanged ==
    /\ nodeclaimmap = before.nodeclaimmap
    /\ k8snodenamemap = before.k8snodenamemap

StringFieldsSetLater ==
    {"Launchedtime", "Providerid", "Instancetype", "Zone", "Capacitytype",
     "Registeredtime", "K8snodename", "Initializedtime", "Disruptiontime",
     "Disruptionreason", "Disruptiondecision", "Disruptednodecount",
     "Replacementnodecount", "Disruptedpodcount", "Annotationtime", "Annotation",
     "Tainttime", "Taint", "Interruptiontime", "Interruptionkind", "Deletedtime"}

DurationFields ==
    {"Nodereadytime", "Nodereadytimesec", "Nodeterminationtime",
     "Nodeterminationtimesec", "Nodelifecycletime", "Nodelifecycletimesec"}

----------------------------------------------------------------------------
(* Claims *)

\* C1: a nodeclaim id is a key of the registry only if a "created nodeclaim"
\* event for that id was extracted and processed earlier, and a line of any
\* other kind leaves the set of registry keys as it was.
C1_KeysOnlyFromCreated ==
    /\ DOMAIN nodeclaimmap \subseteq created
    /\ LastKind # MsgCreated => DOMAIN nodeclaimmap = DOMAIN before.nodeclaimmap

\* a "launched nodeclaim" line for an id without a record has been processed
\* while another id has a record
C1_Witness ==
    /\ LastKind = MsgLaunched
    /\ logline.NodeClaim \in NodeClaims \ DOMAIN nodeclaimmap
    /\ DOMAIN nodeclaimmap # {}

\* C2: after a "created" event for an id that already had a record, the record
\* holds createdtime, nodepool and instancetypes of the event, every other
\* string field is empty, every duration is zero and both flags are false.
C2_CreatedResets ==
    \A id \in ExtractedNodeClaim(logline) \cap DOMAIN before.nodeclaimmap :
        LastKind = MsgCreated =>
            LET e == nodeclaimmap[id]
            IN  /\ e.Createdtime = logline.time
                /\ e.Nodepool = logline.NodePool
                /\ logline.instancetypes = "m5.large, c5.large and 3 other(s)"
                       => e.Instancetypes = "m5.large|c5.large|and3others"
                /\ \A f \in StringFieldsSetLater : e[f] = ""
                /\ \A f \in DurationFields : e[f] = 0
                /\ ~e.Initialized /\ ~e.Deleted

\* a "created" line has been processed for an id whose record was initialized
\* and deleted and held non-zero durations
C2_Witness ==
    /\ LastKind = MsgCreated
    /\ \E id \in ExtractedNodeClaim(logline) \cap DOMAIN before.nodeclaimmap :
          /\ before.nodeclaimmap[id].Deleted
          /\ before.nodeclaimmap[id].Initialized
          /\ before.nodeclaimmap[id].Nodereadytime # 0
          /\ before.nodeclaimmap[id].Nodelifecycletime # 0
          /\ nodeclaimmap[id].Createdtime = T1

TaintFieldsExtracted ==
    /\ LastKind = MsgTainted
    /\ matchTaintedNodeClaim(logline) # <<>> \/ matchTaintedNode(logline) # <<>>

C7_DisruptionLastWriteWins ==
    LastKind = MsgDisrupting =>
        \A id \in ResolvedIds :
            LET e == nodeclaimmap[id]
            IN  /\ e.Disruptiontime = logline.time
                /\ e.Disruptionreason = logline.reason
                /\ e.Disruptiondecision = logline.decision
                /\ e.Disruptednodecount = logline.disruptednodecount
                /\ e.Replacementnodecount = logline.replacementnodecount
                /\ e.Disruptedpodcount = logline.podcount

\* a "replace" disruption has been applied to a record that held a "delete"
\* disruption
C7_Witness ==
    /\ LastKind = MsgDisrupting
    /\ \E id \in ResolvedIds :
          /\ before.nodeclaimmap[id].Disruptiondecision = "delete"
          /\ before.nodeclaimmap[id].Disruptedpodcount = "3"
          /\ nodeclaimmap[id].Disruptiondecision = "replace"

\* the last line was of a kind other than "created", its pattern extracted a
\* nodeclaim or node name, and the name is empty, has no record, or (a node
\* name) has no index entry
Unresolved ==
    /\ LastKind \in MessageKinds \ {MsgCreated}
    /\ ExtractedNodeClaim(logline) \cup ExtractedNodeOnly(logline) # {}
    /\ ResolvedIds = {}

\* C8: a line of a kind other than "created" whose nodeclaim id is empty or has
\* no record, or whose node name has no index entry, leaves both maps as
\* they were.
C8_UnresolvedChangesNothing == Unresolved => MapsUnchanged

\* a "registered" line for an id without a record has been processed while
\* both maps held entries
C8_Witness ==
    /\ Unresolved
    /\ LastKind = MsgRegistered
    /\ logline.NodeClaim \in NodeClaims
    /\ logline.Node \in Nodes \ DOMAIN k8snodenamemap
    /\ DOMAIN nodeclaimmap # {}
    /\ DOMAIN k8snodenamemap # {}

\* C3: with two parser goroutines on the shared maps, once both streams have
\* ended the maps are what whole calls, taken one at a time in some order that
\* keeps each stream's line order, leave behind.
C3_CallsAreAtomic ==
    (\A p \in Pods : pc[p] = "done") =>
        Maps(nodeclaimmap, k8snodenamemap)
            \in SerialResults(Maps(EmptyMap, EmptyMap),
                              consumed["karpenter-1"], consumed["karpenter-2"])

\* C4: every record the export's range has read is a value that record had
\* between whole calls, never one with part of a call's updates.
C4_ExportReadsWholeEvents ==
    \A i \in 1..Len(snapshot) :
        /\ snapshot[i].key \in DOMAIN boundary
        /\ snapshot[i].value \in boundary[snapshot[i].key]

\* the last line named a nodeclaim that has no record or a node that has no
\* index entry
ReferentialFailure ==
    /\ LastKind \in MessageKinds \ {MsgCreated}
    /\ \/ ExtractedNodeClaim(logline) \ (DOMAIN before.nodeclaimmap \cup {""}) # {}
       \/ ExtractedNodeOnly(logline) \ (DOMAIN before.k8snodenamemap \cup {""}) # {}

\* C9: whenever a line names a nodeclaim id that has no record, or a node name
\* that has no index entry, the call writes a diagnostic.
C9_ReferentialFailureReported == ReferentialFailure => stderr # <<>>

\* C10: a line without a message kind, or of a kind that is none of the nine,
\* leaves both maps as they were and writes no diagnostic.
C10_UnknownKindIgnored ==
    LastKind \notin MessageKinds => MapsUnchanged /\ stderr = <<>>

\* a line of a kind that is none of the nine has been processed while both
\* maps held entries
C10_Witness ==
    /\ LastKind \notin MessageKinds \cup {Absent}
    /\ DOMAIN nodeclaimmap # {}
    /\ DOMAIN k8snodenamemap # {}

\* C11: an index entry, once stored, stays: every node name the index held
\* before a line is still in it afterwards, also after the "deleted" event of
\* the nodeclaim it names; and a "tainted node" line that names only a node in
\* the index still resolves to that nodeclaim's record and stores its time
\* there.
C11_IndexEntriesPersist ==
    /\ DOMAIN before.k8snodenamemap \subseteq DOMAIN k8snodenamemap
    /\ \A n \in (ExtractedNodeOnly(logline) \ {""}) \cap DOMAIN before.k8snodenamemap :
           LET id == before.k8snodenamemap[n]
           IN  /\ id \in DOMAIN nodeclaimmap
               /\ nodeclaimmap[id].Tainttime = logline.time

\* a "tainted node" line naming only the node has stored its time in the
\* record of a nodeclaim that was deleted before
C11_Witness ==
    /\ matchMessage(logline) = <<MsgTainted>>
    /\ matchTaintedNodeClaim(logline) = <<>>
    /\ matchTaintedNode(logline) = <<>>
    /\ \E n \in ExtractedNodeOnly(logline) \cap DOMAIN before.k8snodenamemap :
           LET id == before.k8snodenamemap[n]
           IN  /\ id \in DOMAIN before.nodeclaimmap
               /\ before.nodeclaimmap[id].Deleted
               /\ before.nodeclaimmap[id].Tainttime = ""
               /\ nodeclaimmap[id].Tainttime = T1

\* C12: the index changes only when a "registered" line for a nodeclaim that
\* has a record is applied, and then exactly at the line's node name, which
\* from then on names the line's nodeclaim whatever it named before; so each
\* index entry is the nodeclaim of the latest applied "registered" event for
\* its node name, and a "registered" line without an id or for an id without
\* record leaves the index alone.
C12_IndexLastWriteWins ==
    LET m == matchRegistered(logline)
    IN  IF /\ LastKind = MsgRegistered
           /\ m # <<>>
           /\ (ExtractedNodeClaim(logline) \ {""}) \cap DOMAIN before.nodeclaimmap # {}
        THEN k8snodenamemap = MapStore(before.k8snodenamemap, m[3], m[2])
        ELSE k8snodenamemap = before.k8snodenamemap

\* a "registered" line has moved a node name from one nodeclaim to another
C12_Witness ==
    /\ LastKind = MsgRegistered
    /\ logline.Node \in DOMAIN before.k8snodenamemap
    /\ before.k8snodenamemap[logline.Node] # logline.NodeClaim
    /\ logline.Node \in DOMAIN k8snodenamemap
    /\ k8snodenamemap[logline.Node] = logline.NodeClaim

\* the last line is a "tainted node" line of the oldest schema: only the
\* third pattern of the case matches it
OldestTaintedLine ==
    /\ LastKind = MsgTainted
    /\ matchTaintedNodeClaim(logline) = <<>>
    /\ matchTaintedNode(logline) = <<>>
    /\ matchTaintedNodeOnly(logline) # <<>>

\* C14: a "tainted node" line of the oldest schema whose node name is in the
\* index changes Tainttime of the record the index names and nothing else:
\* every other field of that record, every other record and the index are as
\* before.
C14_OldestTaintedSetsOnlyTainttime ==
    OldestTaintedLine =>
        \A n \in (ExtractedNodeOnly(logline) \ {""}) \cap DOMAIN before.k8snodenamemap :
            LET id == before.k8snodenamemap[n]
            IN  /\ k8snodenamemap = before.k8snodenamemap
                /\ id \in DOMAIN before.nodeclaimmap
                /\ nodeclaimmap = [before.nodeclaimmap EXCEPT
                                      ![id] = [@ EXCEPT !.Tainttime = logline.time]]

\* a line of the oldest schema has been applied to a record that holds a taint
C14_Witness ==
    /\ OldestTaintedLine
    /\ \E n \in ExtractedNodeOnly(logline) \cap DOMAIN before.k8snodenamemap :
           LET id == before.k8snodenamemap[n]
           IN  /\ id \in DOMAIN before.nodeclaimmap
               /\ before.nodeclaimmap[id].Taint # ""
               /\ nodeclaimmap[id].Taint = before.nodeclaimmap[id].Taint
               /\ nodeclaimmap[id].Tainttime = T1


\* C15: in every state and for every record, a derived duration one of whose
\* two timestamps in the record is empty is zero, and so is its seconds value:
\* Nodereadytime (Createdtime, Initializedtime), Nodelifecycletime
\* (Createdtime, Deletedtime), Nodeterminationtime (Annotationtime,
\* Deletedtime).
C15_EmptyEndpointZeroDuration ==
    \A id \in DOMAIN nodeclaimmap :
        LET e == nodeclaimmap[id]
        IN  /\ (e.Createdtime = "" \/ e.Initializedtime = "")
                   => e.Nodereadytime = 0 /\ e.Nodereadytimesec = 0
            /\ (e.Createdtime = "" \/ e.Deletedtime = "")
                   => e.Nodelifecycletime = 0 /\ e.Nodelifecycletimesec = 0
            /\ (e.Annotationtime = "" \/ e.Deletedtime = "")
                   => e.Nodeterminationtime = 0 /\ e.Nodeterminationtimesec = 0

\* C17: in every state, a record whose Deletedtime and Annotationtime are both
\* well-formed timestamps has Nodeterminationtime equal to the time from the
\* one to the other.
C17_TerminationReflectsAnnotation ==
    \A id \in DOMAIN nodeclaimmap :
        LET e == nodeclaimmap[id]
        IN  (WellFormedTime(e.Deletedtime) /\ WellFormedTime(e.Annotationtime))
                => e.Nodeterminationtime
                       = datetimeParse(e.Deletedtime).sec
                         - datetimeParse(e.Annotationtime).sec

\* C13: the registry only grows: every key it held before a line was parsed
\* or before the export ran is still a key afterwards, and every id a
\* "created" event has stored is a key in every later state, also after a
\* "deleted" event for it.
C13_RegistryKeysPersist ==
    /\ DOMAIN before.nodeclaimmap \subseteq DOMAIN nodeclaimmap
    /\ created \subseteq DOMAIN nodeclaimmap

\* the export has run on a registry that holds the record of a deleted
\* nodeclaim, and has listed it
C13_Witness ==
    /\ pc["main"] = "done"
    /\ \E i \in DOMAIN rows :
           /\ rows[i].value.Deleted
           /\ rows[i].key \in DOMAIN nodeclaimmap
           /\ rows[i].key \in DOMAIN before.nodeclaimmap

\* C16: after the log created, launched, registered, initialized, deleted of
\* one nodeclaim at strictly increasing instants, the record has Nodereadytime
\* = initialized - created >= 0 and Nodelifecycletime = deleted - created >= 0,
\* each seconds field equal to its duration in seconds, and Nodeterminationtime
\* and its seconds zero, no annotation having been seen.
C16_LifecycleDurations ==
    \A s \in LifecycleInstants :
        (file = Lifecycle("default-abc1", s) /\ scanned = Len(file)) =>
            LET e == nodeclaimmap["default-abc1"]
            IN  /\ e.Nodereadytime = s[4] - s[1]
                /\ e.Nodereadytime >= 0
                /\ e.Nodereadytimesec = s[4] - s[1]
                /\ e.Nodelifecycletime = s[5] - s[1]
                /\ e.Nodelifecycletime >= 0
                /\ e.Nodelifecycletimesec = s[5] - s[1]
                /\ e.Annotationtime = ""
                /\ e.Nodeterminationtime = 0
                /\ e.Nodeterminationtimesec = 0

\* the whole lifecycle log with creation at 00:00:00 and initialization at
\* 00:01:00 has been parsed: 60 s
C16_Witness ==
    /\ file \in LifecycleFiles
    /\ scanned = Len(file)
    /\ "default-abc1" \in DOMAIN nodeclaimmap
    /\ nodeclaimmap["default-abc1"].Createdtime = "2024-01-01T00:00:00.000Z"
    /\ nodeclaimmap["default-abc1"].Initializedtime = "2024-01-01T00:01:00.000Z"
    /\ nodeclaimmap["default-abc1"].Nodereadytimesec = 60
    /\ nodeclaimmap["default-abc1"].Deleted

\* the two timestamps are both present and at least one of them is not a
\* timestamp
ParseFails(t1, t2) ==
    /\ t1 # ""
    /\ t2 # ""
    /\ ~(WellFormedTime(t1) /\ WellFormedTime(t2))

\* C18: when an "initialized" or "deleted" event computes a duration from two
\* timestamps that are present and one or both of them cannot be parsed, the
\* duration and its seconds value are zero.
C18_ParseFailureYieldsZero ==
    \A id \in ResolvedIds :
        LET e == nodeclaimmap[id]
        IN  /\ (LastKind = MsgInitialized /\ ParseFails(e.Createdtime, e.Initializedtime))
                   => e.Nodereadytime = 0 /\ e.Nodereadytimesec = 0
            /\ (LastKind = MsgDeleted /\ ParseFails(e.Createdtime, e.Deletedtime))
                   => e.Nodelifecycletime = 0 /\ e.Nodelifecycletimesec = 0
            /\ (LastKind = MsgDeleted /\ ParseFails(e.Annotationtime, e.Deletedtime))
                   => e.Nodeterminationtime = 0 /\ e.Nodeterminationtimesec = 0

\* the place of a Createdtime string of the modelled logs in the bytewise
\* order of strings: the empty string, then the timestamps in the order of
\* their instants, then BadTime
CreatedtimeRank(t) ==
    IF t = "" THEN 0
    ELSE IF WellFormedTime(t) THEN 1 + datetimeParse(t).sec
    ELSE 3601

\* C19: the slice the export prints is a permutation of the registry's
\* entries, and the Createdtime strings of its rows never decrease in the
\* bytewise order of strings.
C19_ExportSortedPermutation ==
    pc["main"] = "done" =>
        /\ Len(rows) = Cardinality(DOMAIN nodeclaimmap)
        /\ \A id \in DOMAIN nodeclaimmap : \E i \in DOMAIN rows : rows[i].key = id
        /\ \A i \in DOMAIN rows : /\ rows[i].key \in DOMAIN nodeclaimmap
                                  /\ rows[i].value = nodeclaimmap[rows[i].key]
        /\ \A i, j \in DOMAIN rows :
               i < j => CreatedtimeRank(rows[i].value.Createdtime)
                            <= CreatedtimeRank(rows[j].value.Createdtime)

\* three nodeclaims created in the reverse of the order of their Createdtime
\* strings have been exported
C19_Witness ==
    /\ pc["main"] = "done"
    /\ Len(file) = 3
    /\ file[1].time = BadTime
    /\ file[2].time = T1
    /\ file[3].time = ""
    /\ Len(rows) = 3
    /\ rows[1].key = file[3].NodeClaim
    /\ rows[2].key = file[2].NodeClaim
    /\ rows[3].key = file[1].NodeClaim

\* the place in the file of the "created" line that stored the record of id
ArrivalOf(id) ==
    CHOOSE k \in 1..scanned :
        /\ CreatedAfter({}, file[k]) = {id}
        /\ \A later \in (k + 1)..scanned : CreatedAfter({}, file[later]) # {id}

\* C20: rows of the export with equal Createdtime strings stand in the order
\* in which the "created" events of their nodeclaims arrived.
C20_TiesInArrivalOrder ==
    pc["main"] = "done" =>
        \A i, j \in DOMAIN rows :
            (i < j /\ rows[i].value.Createdtime = rows[j].value.Createdtime)
                => ArrivalOf(rows[i].key) < ArrivalOf(rows[j].key)

----------------------------------------------------------------------------
(* Diagnostics and malformed lines *)

\* the last line is of one of the nine kinds and none of the kind's patterns
\* matched it
PatternsExhausted ==
    /\ LastKind \in MessageKinds
    /\ ExtractedNodeClaim(logline) \cup ExtractedNodeOnly(logline) = {}

\* C27: in file mode the diagnostic for a line of a known kind that matched
\* none of the kind's patterns carries the message kind, the name of the file
\* and the 1-based position of the line in the file: the n-th line is reported
\* as line n.
C27_DiagnosticCarriesLinePosition ==
    (pc["main"] = "scan" /\ scanned >= 1 /\ PatternsExhausted)
        => stderr = <<Diag(ErrSyntax, LastKind, scanned, LogFile)>>

\* the registry and the index after the for loop of main.go has parsed the
\* given lines one after the other
RECURSIVE ParseLines(_, _)
ParseLines(maps, lines) ==
    IF lines = <<>> THEN maps
    ELSE ParseLines(
           DoStores(maps, ParseKarpenterLogs(lines[1], maps.nodeclaimmap,
                                             maps.k8snodenamemap, LogFile, 0).stores),
           SubSeq(lines, 2, Len(lines)))

\* line l is of a known kind and matches none of the kind's patterns
Malformed(l) ==
    /\ matchMessage(l) # <<>>
    /\ matchMessage(l)[1] \in MessageKinds
    /\ ExtractedNodeClaim(l) \cup ExtractedNodeOnly(l) = {}

\* C28: a line of a known kind that matches none of the kind's patterns
\* leaves the registry and the index as they were and is reported; the scan
\* goes on, and the lines after it are processed as if it had not been there:
\* the maps are those the well-formed lines read so far produce on their own.
C28_MalformedLineSkipped ==
    pc["main"] = "scan" =>
        /\ PatternsExhausted /\ scanned >= 1
             => MapsUnchanged /\ Len(stderr) = 1 /\ stderr[1].text = ErrSyntax
        /\ Maps(nodeclaimmap, k8snodenamemap)
             = ParseLines(Maps(EmptyMap, EmptyMap),
                          SelectSeq(SubSeq(file, 1, scanned), LAMBDA l : ~Malformed(l)))

\* the third line of a file matched no pattern of its kind, and the "deleted"
\* line after it has been applied to the record the first line created
C28_Witness ==
    /\ pc["main"] = "scan"
    /\ scanned = 4
    /\ Malformed(file[3])
    /\ LastKind = MsgDeleted
    /\ "default-abc1" \in DOMAIN nodeclaimmap
    /\ nodeclaimmap["default-abc1"].Deleted
    /\ ~before.nodeclaimmap["default-abc1"].Deleted

\* C30: an "initialized" or "deleted" line that resolves to a record sets the
\* record's flag whether or not the line carries a timestamp; without a
\* timestamp the timestamp field becomes empty and every other field of the
\* record, the derived durations included, stays as it was.
C30_FlagSetWithoutTimestamp ==
    \A id \in ResolvedIds :
        /\ LastKind = MsgInitialized =>
             /\ nodeclaimmap[id].Initialized
             /\ matchTimeNodeClaim(logline)[1] = "" =>
                  nodeclaimmap[id] = [before.nodeclaimmap[id] EXCEPT
                                        !.Initializedtime = "", !.Initialized = TRUE]
        /\ LastKind = MsgDeleted =>
             /\ nodeclaimmap[id].Deleted
             /\ matchTimeNodeClaim(logline)[1] = "" =>
                  nodeclaimmap[id] = [before.nodeclaimmap[id] EXCEPT
                                        !.Deletedtime = "", !.Deleted = TRUE]

\* an "initialized" line without a timestamp has been applied to a record
\* that was not initialized yet
C30_Witness ==
    /\ LastKind = MsgInitialized
    /\ matchTimeNodeClaim(logline) # <<>>
    /\ matchTimeNodeClaim(logline)[1] = ""
    /\ \E id \in ResolvedIds :
         /\ ~before.nodeclaimmap[id].Initialized
         /\ nodeclaimmap[id].Initialized
         /\ nodeclaimmap[id].Initializedtime = ""

----------------------------------------------------------------------------
(* The tabular export *)

\* the record field a column name of the header stands for: the name with its
\* first letter in upper case
FieldNamed(column) ==
    LET lower == "abcdefghijklmnopqrstuvwxyz"
        upper == "ABCDEFGHIJKLMNOPQRSTUVWXYZ"
        i == CHOOSE j \in 1..26 : SubSeq(lower, j, j) = SubSeq(column, 1, 1)
    IN  SubSeq(upper, i, i) \o SubSeq(column, 2, Len(column))

\* the text a field of a record has in a row, by the type of the field
TextOf(v, column) ==
    LET x == v[FieldNamed(column)]
    IN  IF column \in {"nodereadytime", "nodeterminationtime", "nodelifecycletime"}
        THEN DurationString(x)
        ELSE IF column \in {"nodereadytimesec", "nodeterminationtimesec",
                            "nodelifecycletimesec"}
        THEN SprintfF1(x)
        ELSE IF column \in {"initialized", "deleted"}
        THEN (IF x THEN "true" ELSE "false")
        ELSE x

\* C29: what file mode prints for a registry that is not empty is one header
\* row of 33 column names, each followed by its 1-based index in brackets, and
\* then exactly one row per record of the registry, whose first value is the
\* record's id and whose k-th value is the record's field named by the k-th
\* column; for an empty registry nothing is printed.
C29_TabularExport ==
    pc["main"] = "done" =>
        IF DOMAIN nodeclaimmap = {} THEN stdout = <<>>
        ELSE LET columns == Split(stdout[1], ",")
                 names == Split(header, ",")
                 values(i) == Split(stdout[i + 1], ",")
             IN  /\ Len(columns) = 33
                 /\ \A k \in 1..33 : columns[k] = names[k] \o "[" \o Itoa(k) \o "]"
                 /\ Len(stdout) = 1 + Cardinality(DOMAIN nodeclaimmap)
                 /\ \A id \in DOMAIN nodeclaimmap :
                        \E i \in 1..(Len(stdout) - 1) : values(i)[1] = id
                 /\ \A i \in 1..(Len(stdout) - 1) :
                        /\ Len(values(i)) = 33
                        /\ values(i)[1] \in DOMAIN nodeclaimmap
                        /\ \A k \in 2..33 :
                               values(i)[k] = TextOf(nodeclaimmap[values(i)[1]], names[k])

\* a registry with a record that was launched, initialized after a minute
\* and deleted has been printed
C29_Witness ==
    /\ pc["main"] = "done"
    /\ Len(stdout) = 1 + Cardinality(DOMAIN nodeclaimmap)
    /\ \E id \in DOMAIN nodeclaimmap :
           /\ nodeclaimmap[id].Zone # nodeclaimmap[id].Capacitytype
           /\ nodeclaimmap[id].Nodereadytime = 60
           /\ nodeclaimmap[id].Deleted

----------------------------------------------------------------------------
(* The snapshot in the ConfigMap (k8s.go:124-192): the nodeclaimsConfigMap
   goroutine writes what ConvertResult returns, and lp4kcm, or a process
   started in override mode, reads it back with Populatenodeclaimmap.  The
   parser goroutines are taken a whole call at a time here. *)

\* ConvertResult for the slice sortResult returned: under every key the
\* record's fields as one line of comma-separated values
ConvertResult(s) ==
    [k \in {s[i].key : i \in DOMAIN s} |->
        LET i == CHOOSE j \in DOMAIN s : s[j].key = k
        IN  Join(FieldTexts(s[i].value), ",") \o "\n"]

\* the fields of Nodeclaimstruct, in the order reflect numbers them
NodeclaimstructFields ==
    <<"Createdtime", "Nodepool", "Instancetypes", "Launchedtime", "Providerid",
      "Instancetype", "Zone", "Capacitytype", "Registeredtime", "K8snodename",
      "Initializedtime", "Nodereadytime", "Nodereadytimesec", "Disruptiontime",
      "Disruptionreason", "Disruptiondecision", "Disruptednodecount",
      "Replacementnodecount", "Disruptedpodcount", "Annotationtime", "Annotation",
      "Tainttime", "Taint", "Interruptiontime", "Interruptionkind", "Deletedtime",
      "Nodeterminationtime", "Nodeterminationtimesec", "Nodelifecycletime",
      "Nodelifecycletimesec", "Initialized", "Deleted">>

\* field.Type of a field, and %v of the field's zero value
FieldType(name) ==
    IF name \in {"Nodereadytime", "Nodeterminationtime", "Nodelifecycletime"}
    THEN [type |-> "time.Duration", zero |-> "0s"]
    ELSE IF name \in {"Nodereadytimesec", "Nodeterminationtimesec", "Nodelifecycletimesec"}
    THEN [type |-> "float64", zero |-> "0"]
    ELSE IF name \in {"Initialized", "Deleted"}
    THEN [type |-> "bool", zero |-> "false"]
    ELSE [type |-> "string", zero |-> ""]

RECURSIVE Flatten(_)
Flatten(seqs) == IF seqs = <<>> THEN <<>> ELSE Head(seqs) \o Flatten(Tail(seqs))

\* Populatenodeclaimmap with the order its range visits the keys of cmdata in:
\* it prints the fields of the struct and, for every key, the pieces of the
\* key's value next to the field of the same index; the store into the map is
\* commented out.  t.Field(ind) panics for a piece beyond the last field.
Populatenodeclaimmap(ncm, cmdata, order) ==
    LET fields == NodeclaimstructFields
        structLines ==
            [i \in DOMAIN fields |->
                "Field Name: " \o fields[i] \o ", Field Type: " \o FieldType(fields[i]).type
                    \o ", Field Value: " \o FieldType(fields[i]).zero]
        attrs(key) == Split(cmdata[key], ",")
        panics(key) == Len(attrs(key)) > Len(fields)
        attrLine(key, ind) ==
            "nodeclaim (key): " \o key \o ", ind: " \o Itoa(ind) \o " field name: "
                \o fields[ind + 1] \o " field type: " \o FieldType(fields[ind + 1]).type
                \o " attr: " \o attrs(key)[ind + 1]
        keyLines(key) ==
            [i \in 1..(IF panics(key) THEN Len(fields) ELSE Len(attrs(key))) |->
                attrLine(key, i - 1)]
            \o (IF panics(key) THEN <<>>
                ELSE <<"nodeclaim (key): " \o key \o ", value: " \o cmdata[key]>>)
        bad == {i \in DOMAIN order : panics(order[i])}
        last == IF bad = {} THEN Len(order) ELSE CHOOSE i \in bad : \A j \in bad : i <= j
    IN  [nodeclaimmap |-> ncm,
         panic |-> bad # {},
         out |-> structLines \o Flatten([i \in 1..last |-> keyLines(order[i])])]

\* the program that reads ConfigMaps and prints them (tools/lp4kcm.go)
Lp4kcm == "lp4kcm"

\* the goroutine of main in cluster mode
Main == "main"

\* the lines the parser goroutines of the first process have parsed
SnapshotFiles == LifecycleFiles \cup EventFiles

\* the lines a process in override mode may read from the pods
OverrideLines ==
    {CreatedLine(T1, "spot-844xp", "m5.large, c5.large and 3 other(s)"),
     DeletedLine(T1, "default-abc1")}

\* the number of lines the process in override mode reads
MaxOverrideLines == 1

\* what an edit of the ConfigMap may put in the place of a value
EditedValues(val) == {"garbage\n", SubSeq(val, 1, Len(val) - 1) \o ",extra\n"}

\* a process in cluster mode whose parser goroutines have parsed the lines of
\* file, and whose nodeclaimsConfigMap goroutine has created the ConfigMap
InitSnapshot ==
    /\ file \in SnapshotFiles
    /\ nodeclaimmap = ParseLines(Maps(EmptyMap, EmptyMap), file).nodeclaimmap
    /\ k8snodenamemap = ParseLines(Maps(EmptyMap, EmptyMap), file).k8snodenamemap
    /\ logline = NoiseLine
    /\ stderr = <<>>
    /\ scanned = Len(file)
    /\ created = {}
    /\ before = Maps(EmptyMap, EmptyMap)
    /\ pc = [g \in {CM} |-> "tick"]
    /\ pending = EmptyMap
    /\ consumed = EmptyMap
    /\ snapshot = <<>>
    /\ todo = {}
    /\ boundary = EmptyMap
    /\ rows = <<>>
    /\ stdout = <<>>
    /\ configmap = ConfigMapWith(EmptyMap)
    /\ persisted = NoConfigMap
    /\ sigch = 0
    /\ helpers = 0
    /\ interrupted = FALSE
    /\ finalexports = 0
    /\ args = <<>>
    /\ argi = 0

\* nodeclaimsConfigMap: the first tick.  ConvertResult and, with
\* LP4K_NODECLAIM_PRINT at its default, PrintSortedResult each sort the map;
\* Update fails if the ConfigMap is gone, and its error is dropped
TimerUpdate(order, printorder) ==
    LET empty == DOMAIN nodeclaimmap = {}
        data == IF empty THEN EmptyMap ELSE ConvertResult(sortResult(order, nodeclaimmap))
        noresults == Diag(ErrNoResults, "", 0, "")
    IN  /\ CM \in DOMAIN pc
        /\ pc[CM] = "tick"
        /\ configmap' = IF configmap.exists THEN ConfigMapWith(data) ELSE configmap
        /\ rows' = IF empty THEN <<>> ELSE sortResult(printorder, nodeclaimmap)
        /\ stdout' = IF empty THEN stdout
                     ELSE stdout \o Printed(sortResult(printorder, nodeclaimmap))
        /\ stderr' = IF empty THEN <<noresults, noresults>> ELSE <<>>
        /\ pc' = [pc EXCEPT ![CM] = "updated"]
        /\ UNCHANGED <<nodeclaimmap, k8snodenamemap, logline, scanned, created, before,
                       pending, consumed, snapshot, todo, boundary, file, persisted>>
        /\ UNCHANGED sigvars
        /\ UNCHANGED argvars

\* someone edits a value of the ConfigMap the first process has written
EditConfigMap(key, val) ==
    /\ DOMAIN pc = {CM}
    /\ pc[CM] = "updated"
    /\ configmap.exists
    /\ key \in DOMAIN configmap.Data
    /\ \A k \in DOMAIN configmap.Data : Len(Split(configmap.Data[k], ",")) = 32
    /\ val \in EditedValues(configmap.Data[key])
    /\ configmap' = ConfigMapWith([configmap.Data EXCEPT ![key] = val])
    /\ UNCHANGED <<nodeclaimmap, k8snodenamemap, logline, stderr, scanned, created,
                   before, pc, pending, consumed, snapshot, todo, boundary, persisted>>
    /\ UNCHANGED filevars
    /\ UNCHANGED sigvars
    /\ UNCHANGED argvars

\* someone deletes the ConfigMap
DeleteConfigMap ==
    /\ DOMAIN pc = {CM}
    /\ configmap.exists
    /\ configmap' = NoConfigMap
    /\ UNCHANGED <<nodeclaimmap, k8snodenamemap, logline, stderr, scanned, created,
                   before, pc, pending, consumed, snapshot, todo, boundary, persisted>>
    /\ UNCHANGED filevars
    /\ UNCHANGED sigvars
    /\ UNCHANGED argvars

\* the first process is gone, and lp4kcm, or the program in cluster mode with
\* LP4K_CM_OVERRIDE set, starts with empty maps
Restart(program) ==
    /\ DOMAIN pc = {CM}
    /\ pc' = [g \in {program} |-> "read"]
    /\ nodeclaimmap' = EmptyMap
    /\ k8snodenamemap' = EmptyMap
    /\ before' = Maps(nodeclaimmap, k8snodenamemap)
    /\ persisted' = configmap
    /\ logline' = NoiseLine
    /\ stderr' = <<>>
    /\ scanned' = 0
    /\ file' = <<>>
    /\ rows' = <<>>
    /\ stdout' = <<>>
    /\ UNCHANGED <<created, pending, consumed, snapshot, todo, boundary, configmap>>
    /\ UNCHANGED sigvars
    /\ UNCHANGED argvars

\* "Failed to get ConfigMap"
ErrGetConfigMap == "Failed to get ConfigMap"

\* ReadnodeclaimsConfigMap: os.Exit(1) if the ConfigMap cannot be got, else
\* Populatenodeclaimmap; in cluster mode CollectKarpenterLogs then starts the
\* nodeclaimsConfigMap goroutine and waits
ReadnodeclaimsConfigMap(g, order) ==
    LET r == Populatenodeclaimmap(nodeclaimmap, configmap.Data, order)
    IN  /\ g \in DOMAIN pc
        /\ pc[g] = "read"
        /\ IF ~configmap.exists
           THEN /\ pc' = [pc EXCEPT ![g] = "exited"]
                /\ stderr' = <<Diag(ErrGetConfigMap, "", 0, "")>>
                /\ UNCHANGED <<nodeclaimmap, stdout>>
           ELSE /\ nodeclaimmap' = r.nodeclaimmap
                /\ stdout' = stdout \o r.out
                /\ stderr' = <<>>
                /\ pc' = IF r.panic THEN [pc EXCEPT ![g] = "fatal"]
                         ELSE IF g = Main
                         THEN [h \in {Main, CM} |-> IF h = CM THEN "tick" ELSE "wait"]
                         ELSE [pc EXCEPT ![g] = "loaded"]
        /\ UNCHANGED <<k8snodenamemap, logline, scanned, created, before, pending,
                       consumed, snapshot, todo, boundary, file, rows>>
        /\ UNCHANGED cmvars
        /\ UNCHANGED sigvars
        /\ UNCHANGED argvars

\* lp4kcm: PrintSortedResult after the ConfigMaps have been read
ToolPrint(order) ==
    LET empty == DOMAIN nodeclaimmap = {}
    IN  /\ Lp4kcm \in DOMAIN pc
        /\ pc[Lp4kcm] = "loaded"
        /\ rows' = IF empty THEN <<>> ELSE sortResult(order, nodeclaimmap)
        /\ stdout' = IF empty THEN stdout
                     ELSE stdout \o Printed(sortResult(order, nodeclaimmap))
        /\ stderr' = IF empty THEN <<Diag(ErrNoResults, "", 0, "")>> ELSE <<>>
        /\ pc' = [pc EXCEPT ![Lp4kcm] = "done"]
        /\ UNCHANGED <<nodeclaimmap, k8snodenamemap, logline, scanned, created, before,
                       pending, consumed, snapshot, todo, boundary, file>>
        /\ UNCHANGED cmvars
        /\ UNCHANGED sigvars
        /\ UNCHANGED argvars

\* override mode: a parser goroutine, started before the ConfigMap is read,
\* parses a line
OverrideScan(l) ==
    LET out == ParseKarpenterLogs(l, nodeclaimmap, k8snodenamemap, "STDIN", 0)
        after == DoStores(Maps(nodeclaimmap, k8snodenamemap), out.stores)
    IN  /\ Main \in DOMAIN pc
        /\ pc[Main] \in {"read", "wait"}
        /\ scanned < MaxOverrideLines
        /\ scanned' = scanned + 1
        /\ file' = Append(file, l)
        /\ logline' = l
        /\ stderr' = out.err
        /\ nodeclaimmap' = after.nodeclaimmap
        /\ k8snodenamemap' = after.k8snodenamemap
        /\ UNCHANGED <<created, before, pc, pending, consumed, snapshot, todo,
                       boundary, rows, stdout>>
        /\ UNCHANGED cmvars
        /\ UNCHANGED sigvars
        /\ UNCHANGED argvars

NextSnapshot ==
    \/ \E order, printorder \in RangeOrders(nodeclaimmap) : TimerUpdate(order, printorder)
    \/ \E key \in DOMAIN configmap.Data, val \in {"garbage\n"} \cup
           UNION {EditedValues(configmap.Data[k]) : k \in DOMAIN configmap.Data} :
           EditConfigMap(key, val)
    \/ DeleteConfigMap
    \/ \E program \in {Lp4kcm, Main} : Restart(program)
    \/ \E g \in {Lp4kcm, Main}, order \in RangeOrders(configmap.Data) :
           ReadnodeclaimsConfigMap(g, order)
    \/ \E order \in RangeOrders(nodeclaimmap) : ToolPrint(order)
    \/ \E l \in OverrideLines : OverrideScan(l)

SnapshotSpec == InitSnapshot /\ [][NextSnapshot]_vars

----------------------------------------------------------------------------
(* Export and reload of the snapshot *)

\* what ConvertResult makes of a registry
Exported(ncm) ==
    IF DOMAIN ncm = {} THEN EmptyMap
    ELSE ConvertResult(sortResult(CHOOSE order \in RangeOrders(ncm) : TRUE, ncm))

\* process g has read the ConfigMap and gone on
Reloaded(g) == g \in DOMAIN pc /\ pc[g] \in {"loaded", "done"}

\* C21: when lp4kcm has read a ConfigMap that holds what ConvertResult made of
\* a registry, its own registry has the same ids as that registry and under
\* every id a record equal to the exported one in every field.
C21_SnapshotRoundTrip ==
    (Reloaded(Lp4kcm) /\ persisted.exists
        /\ persisted.Data = Exported(before.nodeclaimmap))
        => nodeclaimmap = before.nodeclaimmap

\* the keys of the ConfigMap the process found whose value is not what
\* ConvertResult wrote
EditedKeys ==
    {k \in DOMAIN persisted.Data :
        k \notin DOMAIN before.nodeclaimmap
        \/ persisted.Data[k] # Exported(before.nodeclaimmap)[k]}

\* C22: when lp4kcm reads a ConfigMap in which the value of one key is
\* malformed, it goes on to the end of the read, it writes a diagnostic that
\* names the key, and its registry holds, under every other key, the record
\* that was exported.
C22_MalformedValueSkipped ==
    (/\ Lp4kcm \in DOMAIN pc
     /\ pc[Lp4kcm] \in {"loaded", "fatal"}
     /\ persisted.exists
     /\ EditedKeys # {})
        => /\ pc[Lp4kcm] = "loaded"
           /\ \A k \in EditedKeys : \E i \in DOMAIN stderr : stderr[i].arg = k
           /\ \A id \in DOMAIN persisted.Data \ EditedKeys :
                  /\ id \in DOMAIN nodeclaimmap
                  /\ nodeclaimmap[id] = before.nodeclaimmap[id]

\* the ids the lines read since the start name
IdsRead == UNION {ExtractedNodeClaim(file[i]) : i \in DOMAIN file}

\* C26: in override mode, after the first update of the ConfigMap, every key
\* the ConfigMap held when the process started is still in it with the value
\* it had, unless a line naming it has been read since.
C26_OverrideKeepsSnapshot ==
    (/\ Main \in DOMAIN pc
     /\ CM \in DOMAIN pc
     /\ pc[CM] = "updated"
     /\ persisted.Data = Exported(before.nodeclaimmap))
        => \A id \in DOMAIN persisted.Data \ IdsRead :
               /\ configmap.exists
               /\ id \in DOMAIN configmap.Data
               /\ configmap.Data[id] = persisted.Data[id]

----------------------------------------------------------------------------
(* SIGINT and SIGTERM (main.go:62-87, k8s.go:212-245): in STDIN mode and in
   cluster mode signal.Notify sends the signal to a channel of capacity 1.
   In STDIN mode every pass of the scan loop starts a goroutine that receives
   from the channel; in cluster mode CollectKarpenterLogs receives from it in
   a deferred function, and main returns after it. *)

\* the lines STDIN and the pods' streams are drawn from
SignalLines ==
    {CreatedLine(T0, "default-abc1", "m5.large, c5.large and 3 other(s)"),
     DeletedLine(T1, "default-abc1"),
     NoiseLine}

\* the number of lines read from STDIN
MaxSignalLines == 3

\* the program attached to STDIN, or attached to the cluster with its parser
\* goroutines, the nodeclaimsConfigMap goroutine and main waiting
InitSignal ==
    /\ nodeclaimmap = EmptyMap
    /\ k8snodenamemap = EmptyMap
    /\ logline = NoiseLine
    /\ stderr = <<>>
    /\ scanned = 0
    /\ created = {}
    /\ before = Maps(EmptyMap, EmptyMap)
    /\ \/ /\ pc = [g \in {Main} |-> "scan"]
          /\ pending = EmptyMap
          /\ consumed = EmptyMap
       \/ /\ pc = [g \in Pods \cup {CM, Main} |->
                     IF g = CM THEN "tick" ELSE IF g = Main THEN "wait" ELSE "scan"]
          /\ pending = [p \in Pods |-> <<>>]
          /\ consumed = [p \in Pods |-> <<>>]
    /\ snapshot = <<>>
    /\ todo = {}
    /\ boundary = EmptyMap
    /\ file = <<>>
    /\ rows = <<>>
    /\ stdout = <<>>
    /\ configmap = NoConfigMap
    /\ persisted = NoConfigMap
    /\ sigch = 0
    /\ helpers = 0
    /\ interrupted = FALSE
    /\ finalexports = 0
    /\ args = <<>>
    /\ argi = 0

\* one pass of the scan loop of the STDIN branch: ParseKarpenterLogs, then
\* go func() { <-c ... }()
StdinScan(l) ==
    LET out == ParseKarpenterLogs(l, nodeclaimmap, k8snodenamemap, "STDIN", 0)
        after == DoStores(Maps(nodeclaimmap, k8snodenamemap), out.stores)
    IN  /\ DOMAIN pc = {Main}
        /\ pc[Main] = "scan"
        /\ scanned < MaxSignalLines
        /\ scanned' = scanned + 1
        /\ logline' = l
        /\ stderr' = out.err
        /\ nodeclaimmap' = after.nodeclaimmap
        /\ k8snodenamemap' = after.k8snodenamemap
        /\ created' = CreatedAfter(created, l)
        /\ before' = Maps(nodeclaimmap, k8snodenamemap)
        /\ helpers' = helpers + 1
        /\ UNCHANGED concvars
        /\ UNCHANGED filevars
        /\ UNCHANGED cmvars
        /\ UNCHANGED <<sigch, interrupted, finalexports>>
        /\ UNCHANGED argvars

\* the process is sent SIGINT or SIGTERM: signal.Notify's sender puts it into
\* the channel unless the channel is full
Interrupt ==
    /\ \E g \in DOMAIN pc : pc[g] \notin {"done", "exited", "fatal"}
    /\ sigch' = 1
    /\ interrupted' = TRUE
    /\ UNCHANGED seqvars
    /\ UNCHANGED concvars
    /\ UNCHANGED filevars
    /\ UNCHANGED cmvars
    /\ UNCHANGED <<helpers, finalexports>>
    /\ UNCHANGED argvars

\* one of the goroutines of the scan loop receives the signal; scanner.Err()
\* is nil, and the goroutine ends
HelperReceives ==
    /\ DOMAIN pc = {Main}
    /\ pc[Main] = "scan"
    /\ helpers > 0
    /\ sigch = 1
    /\ sigch' = 0
    /\ helpers' = helpers - 1
    /\ UNCHANGED seqvars
    /\ UNCHANGED concvars
    /\ UNCHANGED filevars
    /\ UNCHANGED cmvars
    /\ UNCHANGED <<interrupted, finalexports>>
    /\ UNCHANGED argvars

\* scanner.Scan() returns false at the end of STDIN: PrintSortedResult, and
\* main returns, which ends the goroutines that still wait
StdinEnds(order) ==
    /\ DOMAIN pc = {Main}
    /\ pc[Main] = "scan"
    /\ rows' = IF DOMAIN nodeclaimmap = {} THEN <<>> ELSE sortResult(order, nodeclaimmap)
    /\ stdout' = IF DOMAIN nodeclaimmap = {} THEN <<>>
                 ELSE Printed(sortResult(order, nodeclaimmap))
    /\ stderr' = IF DOMAIN nodeclaimmap = {}
                 THEN <<Diag(ErrNoResults, "", 0, "")>>
                 ELSE <<>>
    /\ finalexports' = finalexports + 1
    /\ helpers' = 0
    /\ pc' = [pc EXCEPT ![Main] = "done"]
    /\ UNCHANGED <<nodeclaimmap, k8snodenamemap, logline, scanned, created, before,
                   pending, consumed, snapshot, todo, boundary, file>>
    /\ UNCHANGED cmvars
    /\ UNCHANGED <<sigch, interrupted>>
    /\ UNCHANGED argvars

\* cluster mode: the deferred function of CollectKarpenterLogs receives the
\* signal, CollectKarpenterLogs and main return, and the process is gone
MainReceives ==
    /\ Main \in DOMAIN pc
    /\ pc[Main] = "wait"
    /\ sigch = 1
    /\ sigch' = 0
    /\ pc' = [g \in DOMAIN pc |-> "exited"]
    /\ UNCHANGED seqvars
    /\ UNCHANGED <<pending, consumed, snapshot, todo, boundary>>
    /\ UNCHANGED filevars
    /\ UNCHANGED cmvars
    /\ UNCHANGED <<helpers, interrupted, finalexports>>
    /\ UNCHANGED argvars

NextSignal ==
    \/ \E l \in SignalLines : StdinScan(l)
    \/ Interrupt
    \/ HelperReceives
    \/ \E order \in RangeOrders(nodeclaimmap) : StdinEnds(order)
    \/ MainReceives
    \/ \E p \in Pods, l \in SignalLines : CM \in DOMAIN pc /\ PodScan(p, l)
    \/ \E p \in Pods : CM \in DOMAIN pc /\ PodStore(p)
    \/ \E p \in Pods : CM \in DOMAIN pc /\ PodStreamEnds(p)
    \/ \E p \in Pods : CM \in DOMAIN pc /\ MapFault(p)
    \/ CM \in DOMAIN pc /\ Tick
    \/ \E k \in DOMAIN nodeclaimmap : CM \in DOMAIN pc /\ RangeStep(k)
    \/ CM \in DOMAIN pc /\ RangeEnds

SignalSpec == InitSignal /\ [][NextSignal]_vars

\* the scheduler runs every goroutine that can take a step; when lines and
\* signals arrive is up to the environment
SignalFairSpec ==
    /\ SignalSpec
    /\ WF_vars(HelperReceives)
    /\ WF_vars(MainReceives)
    /\ WF_vars(CM \in DOMAIN pc /\ \E p \in Pods : PodStore(p))
    /\ WF_vars(CM \in DOMAIN pc
                /\ (Tick \/ RangeEnds \/ \E k \in DOMAIN nodeclaimmap : RangeStep(k)))

\* C23: when the process has ended after a SIGINT or SIGTERM, in STDIN mode
\* or in cluster mode, it has made exactly one export after its last line.
C23_InterruptExportsOnce ==
    (interrupted /\ pc[Main] \in {"done", "exited"}) => finalexports = 1

\* C24: every goroutine the scan loop started to wait for the signal ends:
\* whenever some are blocked, a time comes when none is.
C24_HelpersFinish == [](helpers > 0 => <>(helpers = 0))

----------------------------------------------------------------------------
(* The timer export under fair scheduling *)

\* cluster mode with a scheduler that runs every goroutine that can take a
\* step, and a ticker that keeps ticking; when the pods write lines is up to
\* the pods
ClusterFairSpec ==
    /\ ClusterSpec
    /\ WF_vars(Tick)
    /\ WF_vars(\E k \in DOMAIN nodeclaimmap : RangeStep(k))
    /\ WF_vars(RangeEnds)
    /\ \A p \in Pods : WF_vars(PodStore(p))

\* C25: in cluster mode under fair scheduling the timer's export keeps
\* coming round: whenever the registry holds a record, a later export ends
\* with a slice that holds the record's key.
C25_ExportsRecur ==
    \A id \in NodeClaims :
        [](id \in DOMAIN nodeclaimmap => <>(pc[CM] = "tick" /\ id \in Visited))

----------------------------------------------------------------------------
(* The pattern chain of "tainted node", the index and the keys of the
   registry *)

\* the last line was a "tainted node" line the newest pattern matched, and
\* the nodeclaim it extracted is empty or had no record
NewestTaintedUnresolved ==
    /\ LastKind = MsgTainted
    /\ matchTaintedNodeClaim(logline) # <<>>
    /\ \/ matchTaintedNodeClaim(logline)[2] = ""
       \/ matchTaintedNodeClaim(logline)[2] \notin DOMAIN before.nodeclaimmap

\* C33: a "tainted node" line that the newest pattern matches, and whose
\* nodeclaim is empty or has no record, leaves both maps as they were, also
\* when the node the line names is in the index: the patterns that resolve
\* through the node name are not tried.
C33_FirstTaintedPatternWins == NewestTaintedUnresolved => MapsUnchanged

\* such a line has been processed while the index held the line's node, for a
\* nodeclaim whose record has no taint time
C33_Witness ==
    /\ NewestTaintedUnresolved
    /\ matchTaintedNode(logline) # <<>>
    /\ logline.Node \in DOMAIN before.k8snodenamemap
    /\ before.k8snodenamemap[logline.Node] \in DOMAIN nodeclaimmap
    /\ nodeclaimmap[before.k8snodenamemap[logline.Node]].Tainttime = ""

\* C34: every value of the index is the key of a record of the registry.
C34_IndexValuesAreRegistryIds ==
    \A n \in DOMAIN k8snodenamemap : k8snodenamemap[n] \in DOMAIN nodeclaimmap

\* a "deleted" line has been applied to the record a node of the index names
C34_Witness ==
    /\ LastKind = MsgDeleted
    /\ \E n \in DOMAIN k8snodenamemap :
          /\ k8snodenamemap[n] \in ResolvedIds
          /\ nodeclaimmap[k8snodenamemap[n]].Deleted

\* C35: whenever the index maps a node name to a nodeclaim, the record of that
\* nodeclaim holds that node name.
C35_IndexMatchesRecord ==
    \A n \in DOMAIN k8snodenamemap :
        /\ k8snodenamemap[n] \in DOMAIN nodeclaimmap
        /\ nodeclaimmap[k8snodenamemap[n]].K8snodename = n

\* C36: no record of the registry has the empty string as its key.
C36_NoEmptyKey == "" \notin DOMAIN nodeclaimmap

----------------------------------------------------------------------------
(* What one event may change *)

\* the fields of a record that the case of a kind assigns: those of the
\* kind's lifecycle phase, with the durations and the flag it computes
PhaseFields(kind) ==
    CASE kind = MsgLaunched ->
             {"Launchedtime", "Providerid", "Instancetype", "Zone", "Capacitytype"}
      [] kind = MsgRegistered -> {"Registeredtime", "K8snodename"}
      [] kind = MsgInitialized ->
             {"Initializedtime", "Nodereadytime", "Nodereadytimesec", "Initialized"}
      [] kind = MsgDisrupting ->
             {"Disruptiontime", "Disruptionreason", "Disruptiondecision",
              "Disruptednodecount", "Replacementnodecount", "Disruptedpodcount"}
      [] kind = MsgInterruption -> {"Interruptiontime", "Interruptionkind"}
      [] kind = MsgAnnotated -> {"Annotationtime", "Annotation"}
      [] kind = MsgTainted -> {"Tainttime", "Taint"}
      [] kind = MsgDeleted ->
             {"Deletedtime", "Nodelifecycletime", "Nodelifecycletimesec",
              "Nodeterminationtime", "Nodeterminationtimesec", "Deleted"}
      [] OTHER -> {}

\* the ids the last line's event was for: the id a "created" line names, or
\* the ids of the records a line of another kind resolved to
EventIds ==
    IF LastKind = MsgCreated THEN ExtractedNodeClaim(logline) ELSE ResolvedIds

\* C37: one call leaves every record of another id than the event's as it
\* was and adds no key but the event's; an event of a kind other than
\* "created" changes, in the record it resolved to, only the fields of its
\* own phase; and the index changes only with a "registered" event.
C37_FrameCondition ==
    /\ \A id \in (DOMAIN nodeclaimmap \cup DOMAIN before.nodeclaimmap) \ EventIds :
           /\ id \in DOMAIN before.nodeclaimmap
           /\ id \in DOMAIN nodeclaimmap
           /\ nodeclaimmap[id] = before.nodeclaimmap[id]
    /\ LastKind # MsgCreated =>
           \A id \in ResolvedIds :
               \A i \in DOMAIN NodeclaimstructFields :
                   LET f == NodeclaimstructFields[i]
                   IN  f \notin PhaseFields(LastKind)
                           => nodeclaimmap[id][f] = before.nodeclaimmap[id][f]
    /\ LastKind # MsgRegistered => k8snodenamemap = before.k8snodenamemap

\* an interruption has been applied to a registered record while the registry
\* held another record and the index an entry
C37_Witness ==
    /\ LastKind = MsgInterruption
    /\ Cardinality(DOMAIN nodeclaimmap) = 2
    /\ DOMAIN k8snodenamemap # {}
    /\ \E id \in ResolvedIds :
          /\ before.nodeclaimmap[id].Interruptionkind = ""
          /\ nodeclaimmap[id].Interruptionkind = "spot_interrupted"
          /\ nodeclaimmap[id].K8snodename # ""

----------------------------------------------------------------------------
(* File mode with several arguments (main.go:88-116): for every argument in
   turn os.Open, the scan loop over the file's lines, and after the last
   argument one PrintSortedResult.  log.Fatal ends the process if a file
   cannot be opened. *)

\* the number of arguments of the command line
MaxArgs == 2

\* the name given as the i-th argument
ArgName(i) == "karpenter-" \o Itoa(i) \o ".log"

\* lines of every kind but "created" that name nodeclaim default-abc1
EarlyLines ==
    {LaunchedLine(T1, "default-abc1"),
     RegisteredLine(T1, "default-abc1", "ip-10-0-0-1"),
     InitializedLine(T1, "default-abc1"),
     DisruptingLine(T1, "default-abc1", <<"drifted", "replace", "2", "1", "5">>),
     InterruptionLine(T1, "default-abc1"),
     AnnotatedLine(T1, "default-abc1", <<"termination-timestamp", "soon">>),
     TaintedNodeClaimLine(T1, "default-abc1", <<"dedicated", "gpu", "NoExecute">>),
     DeletedLine(T1, "default-abc1")}

\* what a file named as an argument may hold: nothing; the creation and
\* registration of a nodeclaim; events of that nodeclaim and of its node; an
\* event of the nodeclaim ahead of its creation; another nodeclaim
ArgFiles ==
    {<<>>,
     <<CreatedLine(T0, "default-abc1", "m5.large, c5.large and 3 other(s)"),
       RegisteredLine(T1, "default-abc1", "ip-10-0-0-1")>>,
     <<TaintedNodeOnlyLine(T1, "ip-10-0-0-1"), DeletedLine(T1, "default-abc1")>>,
     <<CreatedLine(T1, "spot-844xp", "m5.large, c5.large and 3 other(s)")>>}
    \cup {<<l, CreatedLine(T0, "default-abc1", "m5.large, c5.large and 3 other(s)")>> :
             l \in EarlyLines}

\* an argument: its name, whether os.Open succeeds, and the file's lines
Arg(i, opens, lines) == [name |-> ArgName(i), opens |-> opens, lines |-> lines]

\* the command lines: up to MaxArgs arguments, each a file that opens or a
\* name os.Open fails for
ArgLists ==
    UNION {{[i \in 1..n |-> Arg(i, o[i], IF o[i] THEN f[i] ELSE <<>>)] :
               f \in [1..n -> ArgFiles], o \in [1..n -> BOOLEAN]} : n \in 1..MaxArgs}

InitArgs ==
    /\ nodeclaimmap = EmptyMap
    /\ k8snodenamemap = EmptyMap
    /\ logline = NoiseLine
    /\ stderr = <<>>
    /\ scanned = 0
    /\ created = {}
    /\ before = Maps(EmptyMap, EmptyMap)
    /\ pc = [g \in {Main} |-> "open"]
    /\ pending = EmptyMap
    /\ consumed = [g \in {Main} |-> <<>>]
    /\ snapshot = <<>>
    /\ todo = {}
    /\ boundary = EmptyMap
    /\ file = <<>>
    /\ rows = <<>>
    /\ stdout = <<>>
    /\ configmap = NoConfigMap
    /\ persisted = NoConfigMap
    /\ sigch = 0
    /\ helpers = 0
    /\ interrupted = FALSE
    /\ finalexports = 0
    /\ args \in ArgLists
    /\ argi = 0

\* "open ...: no such file or directory", written by log.Fatal
ErrOpen == "open"

\* OpenArg passing over an argument that cannot be opened
OpenArgSkipsMissing ==
    /\ pc[Main] = "open"
    /\ argi < Len(args)
    /\ argi' = argi + 1
    /\ IF args[argi + 1].opens
       THEN /\ file' = args[argi + 1].lines
            /\ pc' = [pc EXCEPT ![Main] = "scan"]
       ELSE /\ UNCHANGED <<file, pc>>
    /\ scanned' = 0
    /\ UNCHANGED <<nodeclaimmap, k8snodenamemap, logline, stderr, created, before,
                   pending, consumed, snapshot, todo, boundary, rows, stdout, args>>
    /\ UNCHANGED cmvars
    /\ UNCHANGED sigvars

\* the next pass of `for _, arg := range os.Args[1:]`: os.Open(filename), and
\* log.Fatal(err) if it fails; else a new scanner on the file
OpenArg ==
    /\ pc[Main] = "open"
    /\ argi < Len(args)
    /\ argi' = argi + 1
    /\ IF args[argi + 1].opens
       THEN /\ file' = args[argi + 1].lines
            /\ scanned' = 0
            /\ pc' = [pc EXCEPT ![Main] = "scan"]
            /\ UNCHANGED stderr
       ELSE /\ pc' = [pc EXCEPT ![Main] = "fatal"]
            /\ stderr' = <<Diag(ErrOpen, args[argi + 1].name, 0, args[argi + 1].name)>>
            /\ UNCHANGED <<file, scanned>>
    /\ UNCHANGED <<nodeclaimmap, k8snodenamemap, logline, created, before,
                   pending, consumed, snapshot, todo, boundary, rows, stdout, args>>
    /\ UNCHANGED cmvars
    /\ UNCHANGED sigvars

\* ScanArgLine taking the lines of the file from its end
ScanArgLineBackwards ==
    LET l == file[Len(file) - scanned]
        out == ParseKarpenterLogs(l, nodeclaimmap, k8snodenamemap, args[argi].name, 0)
        after == DoStores(Maps(nodeclaimmap, k8snodenamemap), out.stores)
    IN  /\ pc[Main] = "scan"
        /\ scanned < Len(file)
        /\ scanned' = scanned + 1
        /\ logline' = l
        /\ stderr' = out.err
        /\ nodeclaimmap' = after.nodeclaimmap
        /\ k8snodenamemap' = after.k8snodenamemap
        /\ created' = CreatedAfter(created, l)
        /\ before' = Maps(nodeclaimmap, k8snodenamemap)
        /\ consumed' = [consumed EXCEPT ![Main] = Append(@, l)]
        /\ UNCHANGED <<pc, pending, snapshot, todo, boundary>>
        /\ UNCHANGED filevars
        /\ UNCHANGED cmvars
        /\ UNCHANGED sigvars
        /\ UNCHANGED argvars

\* for scanner.Scan() { ParseKarpenterLogs(scanner.Text(), ..., filename, inputline) }
ScanArgLine ==
    LET l == file[scanned + 1]
        out == ParseKarpenterLogs(l, nodeclaimmap, k8snodenamemap, args[argi].name, 0)
        after == DoStores(Maps(nodeclaimmap, k8snodenamemap), out.stores)
    IN  /\ pc[Main] = "scan"
        /\ scanned < Len(file)
        /\ scanned' = scanned + 1
        /\ logline' = l
        /\ stderr' = out.err
        /\ nodeclaimmap' = after.nodeclaimmap
        /\ k8snodenamemap' = after.k8snodenamemap
        /\ created' = CreatedAfter(created, l)
        /\ before' = Maps(nodeclaimmap, k8snodenamemap)
        /\ consumed' = [consumed EXCEPT ![Main] = Append(@, l)]
        /\ UNCHANGED <<pc, pending, snapshot, todo, boundary>>
        /\ UNCHANGED filevars
        /\ UNCHANGED cmvars
        /\ UNCHANGED sigvars
        /\ UNCHANGED argvars

\* scanner.Scan() returns false at the end of the file, scanner.Err() is nil
ArgEnds ==
    /\ pc[Main] = "scan"
    /\ scanned = Len(file)
    /\ pc' = [pc EXCEPT ![Main] = "open"]
    /\ UNCHANGED seqvars
    /\ UNCHANGED <<pending, consumed, snapshot, todo, boundary>>
    /\ UNCHANGED filevars
    /\ UNCHANGED cmvars
    /\ UNCHANGED sigvars
    /\ UNCHANGED argvars

\* after the loop over the arguments: PrintSortedResult, and main returns
PrintAfterArgs(order) ==
    /\ pc[Main] = "open"
    /\ argi = Len(args)
    /\ rows' = IF DOMAIN nodeclaimmap = {} THEN <<>> ELSE sortResult(order, nodeclaimmap)
    /\ stdout' = IF DOMAIN nodeclaimmap = {} THEN <<>>
                 ELSE Printed(sortResult(order, nodeclaimmap))
    /\ stderr' = IF DOMAIN nodeclaimmap = {}
                 THEN <<Diag(ErrNoResults, "", 0, "")>>
                 ELSE <<>>
    /\ pc' = [pc EXCEPT ![Main] = "done"]
    /\ finalexports' = finalexports + 1
    /\ UNCHANGED <<nodeclaimmap, k8snodenamemap, logline, scanned, created, before,
                   pending, consumed, snapshot, todo, boundary, file>>
    /\ UNCHANGED cmvars
    /\ UNCHANGED <<sigch, helpers, interrupted>>
    /\ UNCHANGED argvars

NextArgs ==
    \/ OpenArg
    \/ ScanArgLine
    \/ ArgEnds
    \/ \E order \in RangeOrders(nodeclaimmap) : PrintAfterArgs(order)

ArgsSpec == InitArgs /\ [][NextArgs]_vars

----------------------------------------------------------------------------
(* Drops, and the order in which the lines of the files are fed *)

\* the lines of the first k arguments, in the order of the command line and
\* of the files
LinesOfArgs(k) == Flatten([i \in 1..k |-> args[i].lines])

\* the lines the scan loops have handed to ParseKarpenterLogs so far, if every
\* line is handed over once and in the order of its file
LinesDue ==
    IF pc[Main] = "scan"
    THEN LinesOfArgs(argi - 1) \o SubSeq(file, 1, scanned)
    ELSE LinesOfArgs(argi)

\* line i of fed is of a kind other than "created" and names a nodeclaim that
\* no "created" line ahead of it names: the call drops it
DroppedAt(fed, i) ==
    /\ matchMessage(fed[i]) # <<>>
    /\ matchMessage(fed[i])[1] \in MessageKinds \ {MsgCreated}
    /\ ExtractedNodeClaim(fed[i]) # {}
    /\ \A id \in ExtractedNodeClaim(fed[i]) :
           ~\E j \in 1..(i - 1) :
               /\ matchMessage(fed[j]) = <<MsgCreated>>
               /\ matchCreated(fed[j]) # <<>>
               /\ matchCreated(fed[j])[3] = id

\* fed without the lines that were dropped
RECURSIVE WithoutDrops(_, _)
WithoutDrops(fed, i) ==
    IF i > Len(fed) THEN <<>>
    ELSE (IF DroppedAt(fed, i) THEN <<>> ELSE <<fed[i]>>) \o WithoutDrops(fed, i + 1)

\* C31: the lines handed to the parser are the lines of the files, each once
\* and in the order of its file; the two maps are what the same lines without
\* the dropped ones leave behind, so a dropped line is never applied later;
\* and the record a "created" line stores holds the three fields of that line
\* and nothing of an event of the nodeclaim that came before it.
C31_DropsArePermanent ==
    /\ consumed[Main] = LinesDue
    /\ Maps(nodeclaimmap, k8snodenamemap)
           = ParseLines(Maps(EmptyMap, EmptyMap), WithoutDrops(consumed[Main], 1))
    /\ (LastKind = MsgCreated /\ matchCreated(logline) # <<>>) =>
           LET m == matchCreated(logline)
           IN  /\ m[3] \in DOMAIN nodeclaimmap
               /\ nodeclaimmap[m[3]] =
                      NewNodeclaimstruct(m[1], m[2], NormalizeInstancetypes(m[4]))

\* the "created" line of a nodeclaim has been processed after a line of
\* another kind for the same nodeclaim, which was dropped
C31_Witness ==
    /\ LastKind = MsgCreated
    /\ Len(consumed[Main]) >= 2
    /\ DroppedAt(consumed[Main], Len(consumed[Main]) - 1)
    /\ ExtractedNodeClaim(consumed[Main][Len(consumed[Main]) - 1])
           = ExtractedNodeClaim(logline)
    /\ ExtractedNodeClaim(logline) \subseteq DOMAIN nodeclaimmap
    /\ argi = 2

----------------------------------------------------------------------------
(* The export of file mode *)

\* the number of header rows among the lines printed: the number of tables
Tables == Cardinality({i \in DOMAIN stdout : stdout[i] = headerIndex})

\* the first argument os.Open fails for, or 0
FirstMissing ==
    IF \A i \in DOMAIN args : args[i].opens THEN 0
    ELSE CHOOSE i \in DOMAIN args :
             ~args[i].opens /\ \A j \in 1..(i - 1) : args[j].opens

----------------------------------------------------------------------------
(* The snapshot as JSON (src/unnamed/part_004): this variant of the parser
   package writes json.Marshal of every record into the ConfigMap and reads
   the values back with json.Unmarshal into one Nodeclaimstruct variable that
   it declares ahead of the loop over the keys. *)

\* the digits json.Marshal adds to the seconds of a time.Duration (an int64 of
\* nanoseconds)
Nanos == "000000000"

\* %d of a number, negative ones included
SignedItoa(n) == IF n < 0 THEN "-" \o Itoa(0 - n) ELSE Itoa(n)

\* json.Marshal of a Nodeclaimstruct: an object with a member for every
\* field, in the order of the struct
Marshal(v) ==
    LET token(name) ==
            LET type == FieldType(name).type
            IN  IF type = "string" THEN "\"" \o v[name] \o "\""
                ELSE IF type = "time.Duration"
                THEN (IF v[name] = 0 THEN "0" ELSE SignedItoa(v[name]) \o Nanos)
                ELSE IF type = "float64" THEN SignedItoa(v[name])
                ELSE SprintfT(v[name])
    IN  "{" \o Join([i \in DOMAIN NodeclaimstructFields |->
                        "\"" \o NodeclaimstructFields[i] \o "\":"
                             \o token(NodeclaimstructFields[i])], ",") \o "}"

\* ConvertResult of the variant: under every key the record as JSON
ConvertResultJSON(s) ==
    [k \in {s[i].key : i \in DOMAIN s} |->
        LET i == CHOOSE j \in DOMAIN s : s[j].key = k
        IN  Marshal(s[i].value)]

\* strconv.Atoi of a string of digits
RECURSIVE Atoi(_)
Atoi(d) ==
    IF d = "" THEN 0
    ELSE Atoi(SubSeq(d, 1, Len(d) - 1)) * 10 + DigitValue(SubSeq(d, Len(d), Len(d)))

\* the members of a JSON object whose values hold no comma: name and value
\* of every `"name":value`, or not ok for text that is no member
Members(text) ==
    LET inner == SubSeq(text, 2, Len(text) - 1)
        pieces == IF inner = "" THEN <<>> ELSE Split(inner, ",")
        member(piece) ==
            LET hits == {i \in 1..Len(piece) : HasPrefixAt(piece, i, "\":")}
                c == CHOOSE i \in hits : \A j \in hits : i <= j
            IN  IF hits = {} \/ SubSeq(piece, 1, 1) # "\""
                THEN [ok |-> FALSE, name |-> "", value |-> ""]
                ELSE [ok |-> TRUE, name |-> SubSeq(piece, 2, c - 1),
                      value |-> SubSeq(piece, c + 2, Len(piece))]
    IN  [i \in DOMAIN pieces |-> member(pieces[i])]

\* what a JSON value is: a string, a boolean, a number, or no JSON at all
ValueKind(t) ==
    LET digits == IF Len(t) >= 1 /\ SubSeq(t, 1, 1) = "-"
                  THEN SubSeq(t, 2, Len(t)) ELSE t
    IN  IF Len(t) >= 2 /\ SubSeq(t, 1, 1) = "\"" /\ SubSeq(t, Len(t), Len(t)) = "\""
        THEN "string"
        ELSE IF t = "true" \/ t = "false" THEN "bool"
        ELSE IF digits # "" /\ \A i \in 1..Len(digits) : IsDigit(SubSeq(digits, i, i))
        THEN "number"
        ELSE "invalid"

\* the Go value json.Unmarshal stores into a field of the type for a JSON
\* value of the kind the type takes
ValueOf(t, type) ==
    LET neg == SubSeq(t, 1, 1) = "-"
        digits == IF neg THEN SubSeq(t, 2, Len(t)) ELSE t
        sign(n) == IF neg THEN 0 - n ELSE n
    IN  IF type = "string" THEN SubSeq(t, 2, Len(t) - 1)
        ELSE IF type = "bool" THEN t = "true"
        ELSE IF type = "float64" THEN sign(Atoi(digits))
        ELSE IF Len(digits) <= Len(Nanos) THEN 0
        ELSE sign(Atoi(SubSeq(digits, 1, Len(digits) - Len(Nanos))))

\* json.Unmarshal(text, &struct): text that is not a JSON object is an error
\* and leaves the struct alone; otherwise every member that names a field is
\* stored into that field, a member whose value does not fit the field is an
\* error and is passed over, and a field no member names keeps what it holds
RECURSIVE UnmarshalMembers(_, _, _)
UnmarshalMembers(r, members, i) ==
    IF i > Len(members) THEN r
    ELSE LET name == members[i].name
             kind == ValueKind(members[i].value)
             known == \E j \in DOMAIN NodeclaimstructFields :
                          NodeclaimstructFields[j] = name
             type == FieldType(name).type
             fits == \/ type = "string" /\ kind = "string"
                     \/ type = "bool" /\ kind = "bool"
                     \/ type \in {"float64", "time.Duration"} /\ kind = "number"
         IN  IF ~known THEN UnmarshalMembers(r, members, i + 1)
             ELSE IF fits
             THEN UnmarshalMembers(
                      [r EXCEPT !.val = [r.val EXCEPT ![name] =
                                             ValueOf(members[i].value, type)]],
                      members, i + 1)
             ELSE UnmarshalMembers([r EXCEPT !.err = TRUE], members, i + 1)

Unmarshal(text, struct) ==
    LET object == /\ Len(text) >= 2
                  /\ SubSeq(text, 1, 1) = "{"
                  /\ SubSeq(text, Len(text), Len(text)) = "}"
        members == Members(text)
        valid == /\ object
                 /\ \A i \in DOMAIN members :
                        members[i].ok /\ ValueKind(members[i].value) # "invalid"
    IN  IF valid THEN UnmarshalMembers([val |-> struct, err |-> FALSE], members, 1)
        ELSE [val |-> struct, err |-> TRUE]

\* "JSON encoding error while encoding Nodeclaimstruct of nodeclaim ..."
ErrJSON == "JSON encoding error while encoding Nodeclaimstruct of nodeclaim"

\* the loop of Populatenodeclaimmap from the i-th key of the range on:
\* json.Unmarshal into nodeclaimstruct, a diagnostic if it fails, and in
\* either case (*nodeclaimmap)[key] = nodeclaimstruct
RECURSIVE PopulateFrom(_, _, _, _)
PopulateFrom(r, cmdata, order, i) ==
    IF i > Len(order) THEN r
    ELSE LET key == order[i]
             u == Unmarshal(cmdata[key], r.nodeclaimstruct)
         IN  PopulateFrom(
                 [nodeclaimmap |-> MapStore(r.nodeclaimmap, key, u.val),
                  nodeclaimstruct |-> u.val,
                  err |-> r.err \o (IF u.err THEN <<Diag(ErrJSON, key, 0, "")>>
                                    ELSE <<>>)],
                 cmdata, order, i + 1)

\* Populatenodeclaimmap of the variant, with the order its range visits the
\* keys of cmdata in
PopulatenodeclaimmapJSON(ncm, cmdata, order) ==
    PopulateFrom([nodeclaimmap |-> ncm,
                  nodeclaimstruct |-> NewNodeclaimstruct("", "", ""),
                  err |-> <<>>], cmdata, order, 1)

\* the lines the parser goroutines of the process that wrote the ConfigMap
\* have parsed: the life of one nodeclaim and the creation of another
JsonFiles ==
    {Lifecycle("default-abc1", s)
         \o <<CreatedLine(TimeAt(s[1]), "spot-844xp", "m5.large, c5.large and 3 other(s)")>> :
        s \in LifecycleInstants}

\* what an edit of the ConfigMap may put in the place of a value: text that
\* is no JSON, an object without members, and an object with the first
\* member of the value only
JsonEdits(val) ==
    {"garbage", "{}", SubSeq(val, 1, LastIndex(val, ",\"Nodepool\"")) \o "}"}

\* the variant's nodeclaimsConfigMap goroutine has written the registry the
\* lines of file produce into the ConfigMap, that process is gone, and lp4kcm
\* starts with empty maps
InitJson ==
    /\ file \in JsonFiles
    /\ nodeclaimmap = EmptyMap
    /\ k8snodenamemap = EmptyMap
    /\ logline = NoiseLine
    /\ stderr = <<>>
    /\ scanned = 0
    /\ created = {}
    /\ before = ParseLines(Maps(EmptyMap, EmptyMap), file)
    /\ pc = [g \in {Lp4kcm} |-> "read"]
    /\ pending = EmptyMap
    /\ consumed = EmptyMap
    /\ snapshot = <<>>
    /\ todo = {}
    /\ boundary = EmptyMap
    /\ rows = <<>>
    /\ stdout = <<>>
    /\ \E order \in RangeOrders(before.nodeclaimmap) :
           configmap = ConfigMapWith(
                           ConvertResultJSON(sortResult(order, before.nodeclaimmap)))
    /\ persisted = NoConfigMap
    /\ sigch = 0
    /\ helpers = 0
    /\ interrupted = FALSE
    /\ finalexports = 0
    /\ args = <<>>
    /\ argi = 0

\* someone edits a value of the ConfigMap that is still as it was written
JsonEdit(key, val) ==
    /\ pc[Lp4kcm] = "read"
    /\ key \in DOMAIN configmap.Data
    /\ configmap.Data[key] = Marshal(before.nodeclaimmap[key])
    /\ val \in JsonEdits(configmap.Data[key])
    /\ configmap' = ConfigMapWith([configmap.Data EXCEPT ![key] = val])
    /\ UNCHANGED <<nodeclaimmap, k8snodenamemap, logline, stderr, scanned, created,
                   before, pc, pending, consumed, snapshot, todo, boundary, persisted>>
    /\ UNCHANGED filevars
    /\ UNCHANGED sigvars
    /\ UNCHANGED argvars

\* ReadnodeclaimsConfigMap with the variant's Populatenodeclaimmap
JsonRead(order) ==
    LET r == PopulatenodeclaimmapJSON(nodeclaimmap, configmap.Data, order)
    IN  /\ pc[Lp4kcm] = "read"
        /\ nodeclaimmap' = r.nodeclaimmap
        /\ stderr' = r.err
        /\ persisted' = configmap
        /\ pc' = [pc EXCEPT ![Lp4kcm] = "loaded"]
        /\ UNCHANGED <<k8snodenamemap, logline, scanned, created, before, pending,
                       consumed, snapshot, todo, boundary, configmap>>
        /\ UNCHANGED filevars
        /\ UNCHANGED sigvars
        /\ UNCHANGED argvars

NextJson ==
    \/ \E key \in DOMAIN configmap.Data,
          val \in UNION {JsonEdits(configmap.Data[k]) : k \in DOMAIN configmap.Data} :
           JsonEdit(key, val)
    \/ \E order \in RangeOrders(configmap.Data) : JsonRead(order)

JsonSpec == InitJson /\ [][NextJson]_vars

\* C38: when the ConfigMap has been read, the record under every key is what
\* json.Unmarshal makes of that key's value and an empty record: it does not
\* depend on the values of the other keys or on the order of the read, also
\* for a value that is no JSON or lacks fields.
C38_ReloadDependsOnOwnValue ==
    pc[Lp4kcm] = "loaded" =>
        \A k \in DOMAIN persisted.Data :
            /\ k \in DOMAIN nodeclaimmap
            /\ nodeclaimmap[k]
                   = Unmarshal(persisted.Data[k], NewNodeclaimstruct("", "", "")).val

============================================================================
